---- MODULE Spec2Model ----
(***************************************************************************)
(* State-machine model of the secure-messaging core of the AICUBE          *)
(* framework: SecureAgent (agent/base_agent.py), CryptoHandler             *)
(* (agent/crypto_handler.py) and AICUBECryptoManager                       *)
(* (utils/crypto_utils.py), with the ledger as the collaborator the agent  *)
(* calls (register_agent, get_agent_info, send_message, listen_messages).  *)
(*                                                                         *)
(* Cryptography is symbolic: a key is a record naming its owner, the slot  *)
(* of the key store it sits in, its algorithm and its generation; a        *)
(* signature names the signing key and the exact bytes signed; an          *)
(* encrypted block names the sealed plaintext and the key it is sealed to. *)
(* A Python dict is a record with a field "keys" listing the keys present. *)
(***************************************************************************)
EXTENDS Integers, Sequences, FiniteSets, TLC

VARIABLES
    handler,      \* CryptoHandler of each agent: key material held
    identity,     \* SecureAgent.identity (Optional[AgentIdentity])
    address,      \* SecureAgent.address (Optional[str])
    registry,     \* the ledger's identity registry, by address
    stream,       \* the ledger's stream of raw envelopes, by address
    ledgerCall,   \* the last register_agent / send_message call the ledger got
    offchainPut,  \* the last dict handed to _store_off_chain
    store,        \* content of the off-chain store
    yielded,      \* Messages yielded by receive_messages, by agent
    lastRx,       \* what receive_messages did with the last envelope it took
    last,         \* the last call completed on an agent, and its outcome
    _running,     \* SecureAgent._running, by agent
    left_listening, \* whether the agent has been listening and ceased to
    loops,        \* start_listening coroutines still in their loop, by agent
    clock,        \* the host clock (time.time / datetime.utcnow)
    count,        \* calls made so far, by kind (bounds the run)
    crypto,       \* a run of the crypto manager on its own: inputs and results
    ks,           \* one CryptoHandler with its key store on disk
    verification, \* verify_agent_identity: the ledger's answer and the result
    loan,         \* one run of the loan workflow of the banking example
    listen        \* the listening loops of two registered agents and their sends

\* The state the agents and the ledger share, and the state of the runs
\* that exercise one component on its own.
core == <<handler, identity, address, registry, stream, ledgerCall, offchainPut,
          store, yielded, lastRx, last, _running, left_listening, loops, clock, count>>
aux == <<crypto, ks, verification, loan, listen>>

vars == <<core, aux>>

----------------------------------------------------------------------------
(* Bounds of the model *)

MaxRegister == 2
MaxSend == 1
MaxEnv == 1
MaxGen == 2
MaxStart == 2
MaxKeyGen == 3
MaxTime == 1
MaxCrash == 1
MaxLoops == 2
MaxCalls == 2
MaxSent == 3
MaxQueue == 1

(* Program constants *)

Threshold == 1024
NeuralPatternLen == 32
RsaKeyBytes == 256
HeaderLen == 297
RiskScoreFloor == 700
FraudRiskLimit == 300
SignatureFieldLen == 113
EncFieldsLen == 277

Agents == {"A", "B"}

----------------------------------------------------------------------------
(* Keys, their encodings, addresses *)

Key(owner, slot, alg, gen) == [owner |-> owner, slot |-> slot, alg |-> alg, gen |-> gen]
NoKey == Key("none", "none", "none", 0)

\* A key serialized: PEM as the cryptography library writes it, or the
\* base64 text of that PEM.
Pem(k) == [form |-> "pem", key |-> k]
B64(p) == [form |-> "b64", key |-> p.key]
NoPub == [form |-> "none", key |-> NoKey]

Address(k) == [h |-> "sha3", key |-> k]
NoAddr == [h |-> "none", key |-> NoKey]

Ok(v) == [ok |-> TRUE, val |-> v, err |-> "none"]
Raise(e, v) == [ok |-> FALSE, val |-> v, err |-> e]

\* serialization.load_pem_public_key: anything that is not PEM raises.
load_pem_public_key(p) ==
    IF p.form = "pem" THEN Ok(p.key) ELSE Raise("ValueError", NoKey)

generate_address_accepts_any_key(p) ==
    LET k == load_pem_public_key(p)
    IN  IF ~k.ok THEN Raise(k.err, NoAddr) ELSE Ok(Address(k.val))

\* The address is derived from the point coordinates x, y of the key: only
\* an elliptic-curve key has them, RSA public numbers are (e, n).
generate_address_from_public_key(p) ==
    LET k == load_pem_public_key(p)
    IN  IF ~k.ok THEN Raise(k.err, NoAddr)
        ELSE IF k.val.alg # "ec" THEN Raise("AttributeError", NoAddr)
        ELSE Ok(Address(k.val))

----------------------------------------------------------------------------
(* CryptoHandler *)

NoKeys == [has |-> FALSE, encAlg |-> "none", gen |-> 0]

\* The handler after generate_keys: a fresh RSA pair in the encryption
\* slots and a fresh ECDSA pair in the signing slots.
generate_keys(h) == [has |-> TRUE, encAlg |-> "rsa", gen |-> h.gen + 1]

has_keys(h) == h.has

EncKey(a, h) == Key(a, "enc", h.encAlg, h.gen)
SigKey(a, h) == Key(a, "sig", "ec", h.gen)

get_public_key(a, h) == Pem(EncKey(a, h))
get_private_key(a, h) == EncKey(a, h)
get_ecdsa_public_key(a, h) == Pem(SigKey(a, h))
get_public_key_hex(a, h) == B64(get_public_key(a, h))
get_address(a, h) == generate_address_from_public_key(get_ecdsa_public_key(a, h))

----------------------------------------------------------------------------
(* Payloads, dicts, canonical bytes *)

Payload(body, len) == [body |-> body, len |-> len]
NoPayload == Payload("none", 0)

\* json.dumps(payload).encode() and json.loads(bytes.decode())
JsonDumps(p) == [json |-> p]
JsonLoads(j) == j.json

\* f"AICUBE_AGENT_{name}_NEURAL_0x..." and the test startswith("AICUBE_AGENT_")
NeuralSignature(name) == [tag |-> "AICUBE_AGENT_", name |-> name]
NoNeural == [tag |-> "", name |-> "none"]
StartsWithAgentTag(n) == n.tag = "AICUBE_AGENT_"

NoBody == [keys |-> {}]
NoBytes == [prefix |-> FALSE, body |-> NoBody]
NoSig == [signer |-> NoKey, bytes |-> NoBytes]
NoHash == [sha256 |-> NoBytes]
NoSealed == [pattern |-> FALSE, msg |-> JsonDumps(NoPayload)]
NoBlock == [to |-> NoKey, sealed |-> NoSealed, tamper |-> "none"]

\* A dict of the envelope protocol. "keys" is the set of keys present; a
\* field whose key is absent holds the default of its type.
EmptyDict ==
    [keys |-> {}, id |-> 0, from |-> NoAddr, to |-> NoAddr, payload |-> NoPayload,
     timestamp |-> 0, priority |-> "none", neural_signature |-> NoNeural,
     quantum_protected |-> FALSE, encrypted_payload |-> NoBlock,
     encryption |-> "none", ipfs_hash |-> NoHash, message_hash |-> NoHash,
     signature |-> NoSig]

Has(d, k) == k \in d.keys

\* dict.pop("signature") / del: the key goes, the field falls to its default
PopSignature(d) == [d EXCEPT !.keys = @ \ {"signature"}, !.signature = NoSig]
SetSignature(d, s) == [d EXCEPT !.keys = @ \cup {"signature"}, !.signature = s]

\* A canonical form that leaves the recipient out.
CanonWithoutRecipient(d) == [prefix |-> FALSE, body |-> [d EXCEPT !.to = NoAddr]]

\* json.dumps(d, sort_keys=True).encode(): a function of the dict's content
\* alone, whatever the order its keys were inserted in.
Canon(d) == [prefix |-> FALSE, body |-> d]

\* NEURAL_SIGNATURE_PATTERN + message
WithPattern(m) == [m EXCEPT !.prefix = TRUE]

hash_message(m) == [sha256 |-> m]

B64Len(n) == 4 * ((n + 2) \div 3)

\* len(json.dumps(message_data)) of the dict send_message builds: the fixed
\* fields, the payload, the signature field and the encrypted block, whose
\* two RSA-wrapped keys and ciphertext are base64 text.
JsonLen(d) ==
    HeaderLen + d.payload.len
    + (IF Has(d, "signature") THEN SignatureFieldLen ELSE 0)
    + (IF Has(d, "encrypted_payload")
       THEN EncFieldsLen + 2 * B64Len(RsaKeyBytes)
            + B64Len(NeuralPatternLen + d.payload.len)
       ELSE 0)

----------------------------------------------------------------------------
(* AICUBECryptoManager *)

\* Hybrid seal: the pattern-prefixed plaintext under a fresh AES key, the
\* AES and HMAC keys wrapped by RSA-OAEP under the given public key.
encrypt_message(message, pub) ==
    LET k == load_pem_public_key(pub)
    IN  IF ~k.ok THEN Raise(k.err, NoBlock)
        ELSE IF k.val.alg # "rsa" THEN Raise("AttributeError", NoBlock)
        ELSE Ok([to |-> k.val, sealed |-> [pattern |-> TRUE, msg |-> message],
                 tamper |-> "none"])

\* A private key serialized: PKCS8 PEM, with or without the
\* QUANTUM_SHIELD_HEADER bytes in front of it, or bytes that are no PEM.
PrivPem(k, shield) == [form |-> "pem", shield |-> shield, key |-> k]
InvalidPrivateKey == [form |-> "junk", shield |-> FALSE, key |-> NoKey]

\* generate_rsa_keypair hands the private PEM out behind the header.
generate_rsa_keypair(k) == [private |-> PrivPem(k, TRUE), public |-> Pem(k)]

keep_quantum_shield(private_key_pem) == private_key_pem

\* "if private_key_pem.startswith(QUANTUM_SHIELD_HEADER): strip it"
strip_quantum_shield(private_key_pem) ==
    IF private_key_pem.shield THEN [private_key_pem EXCEPT !.shield = FALSE]
    ELSE private_key_pem

\* serialization.load_pem_private_key: bytes that do not begin a PEM raise.
load_pem_private_key(p) ==
    IF p.form = "pem" /\ ~p.shield THEN Ok(p.key) ELSE Raise("ValueError", NoKey)

\* What opening gives when nothing authenticates the ciphertext.
Garbled(message) == [json |-> [body |-> "garbled", len |-> message.json.len]]

decrypt_message_unauthenticated(block, priv) ==
    IF priv.alg # "rsa" THEN Raise("AttributeError", JsonDumps(NoPayload))
    ELSE IF block.to # priv \/ block.tamper \in {"aes_key", "hmac_key"}
         THEN Raise("ValueError", JsonDumps(NoPayload))
    ELSE IF block.tamper # "none" THEN Ok(Garbled(block.sealed.msg))
    ELSE Ok(block.sealed.msg)

\* What has been done to a block since it was sealed. A flipped bit in a
\* wrapped key makes its OAEP unwrapping fail; in the ciphertext or the
\* HMAC, or the two wrapped keys exchanged, makes the HMAC check fail. A
\* wrapped key replaced by a key the attacker wrapped under the public key
\* unwraps: with the HMAC key replaced and the HMAC recomputed over an
\* altered ciphertext ("forged_hmac"), or the AES key replaced
\* ("rewrapped_aes_key"), the HMAC check passes and AES-GCM refuses the tag.
Tampers == {"aes_key", "hmac_key", "ciphertext", "hmac", "swapped_keys", "tag", "iv",
            "forged_hmac", "rewrapped_aes_key"}

\* decrypt_message once the private key is loaded: the two keys are
\* unwrapped, the HMAC of the ciphertext is verified, AES-GCM opens the
\* ciphertext under iv and tag, and the pattern is taken off the front.
decrypt_message(block, priv) ==
    IF priv.alg # "rsa" THEN Raise("AttributeError", JsonDumps(NoPayload))
    ELSE IF block.to # priv \/ block.tamper \in {"aes_key", "hmac_key"}
         THEN Raise("ValueError", JsonDumps(NoPayload))
    ELSE IF block.tamper \in {"ciphertext", "hmac", "swapped_keys"}
         THEN Raise("ValueError", JsonDumps(NoPayload))
    ELSE IF block.tamper \in {"tag", "iv", "forged_hmac", "rewrapped_aes_key"}
         THEN Raise("InvalidTag", JsonDumps(NoPayload))
    ELSE IF ~block.sealed.pattern THEN Raise("ValueError", JsonDumps(NoPayload))
    ELSE Ok(block.sealed.msg)

\* The operations of decrypt_message in the order the code has them.
DecryptOrder ==
    <<"unwrap_aes_key", "unwrap_hmac_key", "verify_hmac", "aes_gcm_decrypt", "check_pattern">>

\* How many of them a block gets through, the failing one included.
decrypt_reach(block, priv) ==
    IF priv.alg # "rsa" \/ block.to # priv \/ block.tamper = "aes_key" THEN 1
    ELSE IF block.tamper = "hmac_key" THEN 2
    ELSE IF block.tamper \in {"ciphertext", "hmac", "swapped_keys"} THEN 3
    ELSE IF block.tamper \in {"tag", "iv", "forged_hmac", "rewrapped_aes_key"} THEN 4
    ELSE 5

decrypt_steps_decrypt_first(block, priv) ==
    LET n == decrypt_reach(block, priv)
    IN  IF n <= 2 THEN SubSeq(DecryptOrder, 1, n)
        ELSE <<"unwrap_aes_key", "unwrap_hmac_key", "aes_gcm_decrypt", "verify_hmac">>

\* The operations decrypt_message performs on a block before it returns or
\* raises.
decrypt_steps(block, priv) == SubSeq(DecryptOrder, 1, decrypt_reach(block, priv))

\* decrypt_message as it is called: on the private key's PEM bytes.
decrypt_message_from_pem(encrypted_data, private_key_pem) ==
    LET k == load_pem_private_key(strip_quantum_shield(private_key_pem))
    IN  IF ~k.ok THEN Raise(k.err, JsonDumps(NoPayload))
        ELSE decrypt_message(encrypted_data, k.val)

\* ECDSA over the bytes given, by the private key given.
sign_message(message, priv) ==
    IF priv.alg # "ec" THEN Raise("TypeError", NoSig)
    ELSE Ok([signer |-> priv, bytes |-> message])

verify_signature_key_only(message, signature, pub) ==
    LET k == load_pem_public_key(pub)
    IN  k.ok /\ k.val.alg = "ec" /\ signature.signer = k.val

\* True only for an ECDSA public key that matches the signer and the very
\* bytes signed; every failure inside is swallowed and gives False.
verify_signature(message, signature, pub) ==
    LET k == load_pem_public_key(pub)
    IN  /\ k.ok
        /\ k.val.alg = "ec"
        /\ signature.signer = k.val
        /\ signature.bytes = message

\* CryptoHandler.sign_message: the pattern is put before the message.
handler_sign_message(a, h, message) ==
    IF ~h.has THEN Raise("ValueError", NoSig)
    ELSE sign_message(WithPattern(message), SigKey(a, h))

----------------------------------------------------------------------------
(* State *)

Addrs == {Address(Key(a, slot, "ec", g)) : a \in Agents, slot \in {"enc", "sig"}, g \in 0..MaxGen}

NoIdentity == [set |-> FALSE, address |-> NoAddr, public_key |-> NoPub, registration_time |-> 0]
NoInfo == [present |-> FALSE, public_key |-> NoPub, is_active |-> FALSE]
NoDid == [id |-> NoAddr, publicKey |-> NoPub, neural_signature |-> NoNeural]
NoArgs == [recipient |-> NoAddr, payload |-> NoPayload, encrypt |-> FALSE, accept |-> FALSE,
           resolved |-> NoInfo]
NoRet == [kind |-> "none", n |-> 0]
NoCall == [agent |-> "none", op |-> "none", args |-> NoArgs, ok |-> TRUE, err |-> "none",
           ret |-> NoRet, preIdentity |-> NoIdentity, preAddress |-> NoAddr,
           postIdentity |-> NoIdentity, postAddress |-> NoAddr, calls |-> <<>>]
NoLedgerCall == [op |-> "none", by |-> "none", recipient |-> NoAddr, message_hash |-> NoHash,
                 has_ipfs |-> FALSE, ipfs_hash |-> NoHash, metadata |-> EmptyDict,
                 did_document |-> NoDid, signature |-> NoSig]
NoPut == [any |-> FALSE, data |-> EmptyDict]
NoRx == [agent |-> "none", outcome |-> "none", raw |-> EmptyDict, after |-> EmptyDict,
         sender_key |-> NoPub, verified |-> FALSE, err |-> "none", fatal |-> FALSE,
         prev |-> [outcome |-> "none", err |-> "none"],
         overtaken |-> 0, waiting |-> 0, yielded_before |-> 0, yielded_after |-> 0]

NoCrypto ==
    [step |-> "none", plaintext |-> JsonDumps(NoPayload), pair |-> NoKey,
     private_key |-> InvalidPrivateKey, public_key |-> NoPub,
     block |-> Ok(NoBlock), tamper |-> "none", opener |-> InvalidPrivateKey,
     opened |-> Ok(JsonDumps(NoPayload)), steps |-> <<>>,
     message |-> NoBytes, signer |-> NoKey, signature |-> Ok(NoSig),
     presented |-> NoBytes, pub |-> NoPub, verdict |-> FALSE]

\* The files of a key store in the order _save_keys writes them, and the
\* attribute of the handler each one holds.
KeyFiles == <<"rsa_private.pem", "rsa_public.pem", "ecdsa_private.pem", "ecdsa_public.pem">>
KeySlots == <<"_private_key_pem", "_public_key_pem", "_ecdsa_private_key", "_ecdsa_public_key">>
FileSet == {KeyFiles[i] : i \in 1..4}
SlotSet == {KeySlots[i] : i \in 1..4}

\* Key material is named by the generation it belongs to; 0 is None for an
\* attribute and "does not exist" for a file.
NoMaterial == [s \in SlotSet |-> 0]
NoFiles == [f \in FileSet |-> 0]
NoRead == [by |-> "none", during |-> "idle", keys |-> NoMaterial, since |-> NoMaterial]
NoKeyStore ==
    [pc |-> "idle", i |-> 1, mem |-> NoMaterial, files |-> NoFiles,
     backup |-> [t \in 0..MaxTime |-> NoFiles], time |-> 0, next |-> 1,
     replaced |-> {}, crashes |-> 0,
     send |-> [pc |-> "idle", since |-> NoMaterial], read |-> NoRead]

\* A DID document as the ledger hands it out: JSON text of an object, with
\* or without a neural_signature, JSON text of something else, text that is
\* no JSON, or None.
Doc(form, neural) == [form |-> form, neural |-> neural]
EmptyObject == Doc("object", "absent")

\* What get_agent_info gives verify_agent_identity: an exception, None (or
\* an empty dict), or a dict that may lack is_active and did_document.
Lookup(raises, present, has_active, is_active, has_did, did) ==
    [raises |-> raises, present |-> present, has_active |-> has_active,
     is_active |-> is_active, has_did |-> has_did, did |-> did]
LookupRaises == Lookup(TRUE, FALSE, FALSE, FALSE, FALSE, EmptyObject)
LookupNone == Lookup(FALSE, FALSE, FALSE, FALSE, FALSE, EmptyObject)
NoVerification == [lookup |-> LookupNone, called |-> FALSE, on |-> LookupNone,
                   ret |-> Ok(FALSE)]

\* A loan application: "amount" at the top level and under "loan", each
\* present or not.
Application(has_amount, amount, has_loan, loan_amount) ==
    [has_amount |-> has_amount, amount |-> amount,
     has_loan |-> has_loan, loan |-> [amount |-> loan_amount]]
NoDecision == [status |-> "none", loan_amount |-> 0]
NoResponse == [returned |-> FALSE, raised |-> FALSE, decision |-> NoDecision,
               audit_trail |-> <<>>, has_failure_record |-> FALSE]
NoLoan ==
    [application |-> Application(FALSE, 0, FALSE, 0), fails_at |-> 0,
     risk_score |-> 0, fraud_risk |-> 0, compliance_status |-> "none",
     ran |-> <<>>, audit_trail |-> <<>>, decision |-> NoDecision, response |-> NoResponse]

\* A Message as start_listening gets it from receive_messages: its sender,
\* the "type" of its payload when it has one, and whether it is a reply that
\* default processing produced.
Msg(sender, has_type, type, auto) ==
    [sender |-> sender, has_type |-> has_type, type |-> type, auto |-> auto]
NoMsg == Msg("none", FALSE, "none", FALSE)

\* One start_listening coroutine: where it is, the Messages its own
\* receive_messages generator has for it, whether stop_listening was called
\* since it started, and how its last dispatch ended.
NoLoop == [pc |-> "none", queue |-> <<>>, stopped |-> FALSE, failed |-> "none"]
NoDispatch ==
    [agent |-> "none", loop |-> 0, path |-> "none", failed |-> "none",
     prev_failed |-> "none", stopped |-> FALSE, pc_after |-> "none", running_after |-> FALSE]
NoListen ==
    [handlers |-> [a \in Agents |-> {}], running |-> [a \in Agents |-> FALSE],
     lp |-> [a \in Agents |-> [l \in 1..MaxLoops |-> NoLoop]],
     sent |-> <<>>, now |-> 0, calls |-> 0, dispatch |-> NoDispatch]

\* What a completed call leaves to observe: its arguments and result, the
\* identity and address the agent had when it was called and has when it
\* returns, and the collaborator operations it invoked.
Outcome(a, op, args, ok, err, ret, calls) ==
    [agent |-> a, op |-> op, args |-> args, ok |-> ok, err |-> err, ret |-> ret,
     preIdentity |-> identity[a], preAddress |-> address[a],
     postIdentity |-> identity'[a], postAddress |-> address'[a], calls |-> calls]

\* A key store found at construction holds whatever its four files hold:
\* _load_existing_keys reads them unchecked. A handler built from a private
\* key, or by generate_keys, holds an RSA pair in the encryption slots.
LoadedHandlers == {NoKeys, [has |-> TRUE, encAlg |-> "ec", gen |-> 0]}

InitCore ==
    /\ \E h \in LoadedHandlers : handler = [a \in Agents |-> h]
    /\ identity = [a \in Agents |-> NoIdentity]
    /\ address = [a \in Agents |-> NoAddr]
    /\ registry = [x \in Addrs |-> NoInfo]
    /\ stream = [x \in Addrs |-> <<>>]
    /\ ledgerCall = NoLedgerCall
    /\ offchainPut = NoPut
    /\ store = {}
    /\ yielded = [a \in Agents |-> <<>>]
    /\ lastRx = NoRx
    /\ last = NoCall
    /\ _running = [a \in Agents |-> FALSE]
    /\ left_listening = [a \in Agents |-> FALSE]
    /\ loops = [a \in Agents |-> 0]
    /\ clock = 0
    /\ count = [register |-> 0, send |-> 0, env |-> 0, start |-> 0]

Init ==
    /\ InitCore
    /\ crypto = NoCrypto
    /\ ks = NoKeyStore
    /\ verification = NoVerification
    /\ loan = NoLoan
    /\ listen = NoListen

----------------------------------------------------------------------------
(* The ledger collaborator *)

\* register_agent anchors the DID document under the address it names;
\* get_agent_info resolves the public key from the document's publicKey.
LedgerRegister(reg, did) ==
    [reg EXCEPT ![did.id] = [present |-> TRUE, public_key |-> did.publicKey, is_active |-> TRUE]]

get_agent_info(reg, x) == IF x \in Addrs THEN reg[x] ELSE NoInfo

TxRef(call) == [kind |-> "tx", n |-> 1]

----------------------------------------------------------------------------
(* SecureAgent.register *)

register(a, accept) ==
    LET h0 == handler[a]
        h1 == IF ~has_keys(h0) THEN generate_keys(h0) ELSE h0
        public_key == get_public_key(a, h1)
        derived == generate_address_from_public_key(public_key)
        did == [id |-> derived.val, publicKey |-> get_public_key_hex(a, h1),
                neural_signature |-> NeuralSignature(a)]
        signature == handler_sign_message(a, h1, Canon(did))
        args == [NoArgs EXCEPT !.accept = accept]
        call == [NoLedgerCall EXCEPT !.op = "register_agent", !.by = a,
                     !.message_hash = hash_message(public_key),
                     !.did_document = did, !.signature = signature.val]
    IN  /\ count.register < MaxRegister
        /\ count' = [count EXCEPT !.register = @ + 1]
        /\ handler' = [handler EXCEPT ![a] = h1]
        /\ IF ~derived.ok
           THEN /\ UNCHANGED <<address, identity, registry, ledgerCall>>
                /\ last' = Outcome(a, "register", args, FALSE, derived.err, NoRet, <<>>)
           ELSE /\ address' = [address EXCEPT ![a] = derived.val]
                /\ ledgerCall' = call
                /\ IF accept
                   THEN /\ registry' = LedgerRegister(registry, did)
                        /\ identity' = [identity EXCEPT ![a] =
                               [set |-> TRUE, address |-> derived.val, public_key |-> public_key,
                                registration_time |-> clock]]
                        /\ last' = Outcome(a, "register", args, TRUE, "none", TxRef(call),
                                           <<"register_agent">>)
                   ELSE /\ UNCHANGED <<identity, registry>>
                        /\ last' = Outcome(a, "register", args, FALSE, "RuntimeError", NoRet,
                                           <<"register_agent">>)
        /\ UNCHANGED <<stream, offchainPut, store, yielded, lastRx, clock, _running,
                       left_listening, loops, aux>>

Register == \E a \in Agents, accept \in BOOLEAN : register(a, accept)

\* An identity put on an agent that holds framework keys from outside
\* register, as the test suite does before it sends and the CLI does with a
\* saved address; the ledger then resolves the address to the PEM of one of
\* the holder's public keys, as the suite's ledger double does.
InstallIdentity ==
    \E a \in Agents, slot \in {"enc", "sig"} :
        LET h == handler[a]
            x == get_address(a, h).val
            pub == IF slot = "enc" THEN get_public_key(a, h) ELSE get_ecdsa_public_key(a, h)
        IN  /\ ~identity[a].set
            /\ has_keys(h)
            /\ h.encAlg = "rsa"
            /\ address' = [address EXCEPT ![a] = x]
            /\ identity' = [identity EXCEPT ![a] =
                   [set |-> TRUE, address |-> x, public_key |-> get_public_key(a, h),
                    registration_time |-> clock]]
            /\ registry' = [registry EXCEPT ![x] =
                   [present |-> TRUE, public_key |-> pub, is_active |-> TRUE]]
            /\ UNCHANGED <<handler, stream, ledgerCall, offchainPut, store, yielded, lastRx,
                           last, clock, count, _running, left_listening, loops, aux>>

----------------------------------------------------------------------------
(* SecureAgent.send_message *)

Payloads ==
    {Payload("amount100", Threshold - HeaderLen - SignatureFieldLen),
     Payload("bulk", Threshold - HeaderLen - SignatureFieldLen + 1)}

\* "Store" the dict off-chain: the digest of its sorted serialization is
\* returned; nothing is written anywhere.
_store_off_chain(data) == hash_message(Canon(data))

MessageData(a, recipient, payload, priority, now) ==
    [EmptyDict EXCEPT
        !.keys = {"id", "from", "to", "payload", "timestamp", "priority",
                  "neural_signature", "quantum_protected"},
        !.id = now, !.from = address[a], !.to = recipient, !.payload = payload,
        !.timestamp = now, !.priority = priority,
        !.neural_signature = NeuralSignature(a), !.quantum_protected = TRUE]

WithEncryptedPayload(d, block) ==
    [d EXCEPT !.keys = @ \cup {"encrypted_payload", "encryption"},
              !.encrypted_payload = block, !.encryption = "aes-256-gcm"]

\* The whole signed envelope with the reference added.
BlockchainPayloadWholeEnvelope(a, d, ipfs_hash, message_bytes) ==
    [d EXCEPT !.keys = @ \cup {"ipfs_hash"}, !.ipfs_hash = ipfs_hash]

\* The dict submitted in place of an envelope stored off-chain.
BlockchainPayload(a, d, ipfs_hash, message_bytes) ==
    [EmptyDict EXCEPT
        !.keys = {"id", "from", "to", "ipfs_hash", "message_hash", "timestamp",
                  "neural_signature"},
        !.id = d.id, !.from = address[a], !.to = d.to, !.ipfs_hash = ipfs_hash,
        !.message_hash = hash_message(message_bytes), !.timestamp = d.timestamp,
        !.neural_signature = NeuralSignature(a)]

IsOffChainFromThreshold(d) == JsonLen(d) >= Threshold

\* if len(json.dumps(message_data)) > 1024
IsOffChain(d) == JsonLen(d) > Threshold

is_registered_always(a) == TRUE

\* "if not self.identity": the test send_message and receive_messages
\* open with.
is_registered(a) == identity[a].set

recipient_absent_only(recipient_info) == ~recipient_info.present

\* "if not recipient_info or not recipient_info.get("is_active")"
recipient_unusable(recipient_info) ==
    ~recipient_info.present \/ ~recipient_info.is_active

submit_result_swallowed(accept, message_id) == Ok([kind |-> "msg", n |-> message_id])

\* The one call of blockchain_client.send_message and what send_message
\* makes of it: the message id when it returns, its exception when it
\* raises.
submit_result(accept, message_id) ==
    IF accept THEN Ok([kind |-> "msg", n |-> message_id])
    ELSE Raise("RuntimeError", NoRet)

SendFails(a, args, err, calls) ==
    /\ last' = Outcome(a, "send_message", args, FALSE, err, NoRet, calls)
    /\ UNCHANGED <<stream, ledgerCall, offchainPut, store>>

send_message(a, recipient, payload, encrypt, priority, accept, now) ==
    LET recipient_info == get_agent_info(registry, recipient)
        args == [recipient |-> recipient, payload |-> payload, encrypt |-> encrypt,
                 accept |-> accept, resolved |-> recipient_info]
        message_data == MessageData(a, recipient, payload, priority, now)
        sealed == encrypt_message(JsonDumps(payload), recipient_info.public_key)
        to_sign == IF encrypt THEN WithEncryptedPayload(message_data, sealed.val)
                   ELSE message_data
        message_bytes == Canon(to_sign)
        signature == handler_sign_message(a, handler[a], message_bytes)
        signed == SetSignature(to_sign, signature.val)
        ipfs_hash == _store_off_chain(signed)
        blockchain_payload ==
            IF IsOffChain(signed)
            THEN BlockchainPayload(a, signed, ipfs_hash, message_bytes)
            ELSE signed
        call == [NoLedgerCall EXCEPT !.op = "send_message", !.by = a,
                     !.recipient = recipient,
                     !.message_hash = hash_message(message_bytes),
                     !.has_ipfs = IsOffChain(signed),
                     !.ipfs_hash = IF IsOffChain(signed) THEN ipfs_hash ELSE NoHash,
                     !.metadata = blockchain_payload]
        sealing == IF encrypt THEN <<"encrypt_message">> ELSE <<>>
        storing == IF IsOffChain(signed) THEN <<"_store_off_chain">> ELSE <<>>
        submitted == submit_result(accept, now)
    IN  /\ count.send < MaxSend
        /\ count' = [count EXCEPT !.send = @ + 1]
        /\ clock' = now
        /\ UNCHANGED <<handler, identity, address, registry, yielded, lastRx, _running,
                       left_listening, loops, aux>>
        /\ IF ~is_registered(a)
           THEN SendFails(a, args, "ValueError", <<>>)
           ELSE IF recipient_unusable(recipient_info)
           THEN SendFails(a, args, "ValueError", <<"get_agent_info">>)
           ELSE IF encrypt /\ ~sealed.ok
           THEN SendFails(a, args, sealed.err, <<"get_agent_info">> \o sealing)
           ELSE IF ~signature.ok
           THEN SendFails(a, args, signature.err, <<"get_agent_info">> \o sealing)
           ELSE /\ offchainPut' = IF IsOffChain(signed) THEN [any |-> TRUE, data |-> signed]
                                  ELSE offchainPut
                /\ store' = store
                /\ ledgerCall' = call
                /\ stream' = IF accept
                             THEN [stream EXCEPT ![recipient] = Append(@, blockchain_payload)]
                             ELSE stream
                /\ last' = Outcome(a, "send_message", args, submitted.ok, submitted.err,
                                   submitted.val,
                                   <<"get_agent_info">> \o sealing \o storing
                                       \o <<"send_message">>)

\* The addresses a caller may name: every identity on the ledger, and one
\* address it does not hold.
UnknownAddr == Address(Key("A", "enc", "ec", MaxGen))
Registered == {x \in Addrs : registry[x].present}
Recipients == Registered \cup {UnknownAddr}

SendMessage ==
    \E a \in Agents, recipient \in Recipients, payload \in Payloads, encrypt \in BOOLEAN,
       accept \in BOOLEAN, now \in {clock, clock + 1} \ {0} :
        send_message(a, recipient, payload, encrypt, "normal", accept, now)

----------------------------------------------------------------------------
(* SecureAgent.receive_messages *)

\* A wrapper that lets a dict without a signature through.
verify_passes_unsigned(message, sender_public_key) ==
    IF ~Has(message, "signature") THEN [result |-> TRUE, message |-> message]
    ELSE [result |-> verify_signature(Canon(PopSignature(message)), message.signature,
                                      sender_public_key),
          message |-> PopSignature(message)]

\* Pops the signature off the dict it is given and verifies the rest; a
\* dict without a signature, like any failure inside, gives False. The dict
\* is handed back as the call leaves it.
_verify_message_signature(message, sender_public_key) ==
    IF ~Has(message, "signature") THEN [result |-> FALSE, message |-> message]
    ELSE [result |-> verify_signature(Canon(PopSignature(message)), message.signature,
                                      sender_public_key),
          message |-> PopSignature(message)]

MessageKeys == {"id", "from", "to", "timestamp", "signature"}

\* One turn of the loop over listen_messages(self.address): what becomes of
\* the raw envelope taken, and the Message built from it when one is.
process_incoming(b, raw_message) ==
    LET sender_info == get_agent_info(registry, raw_message.from)
        checked == _verify_message_signature(raw_message, sender_info.public_key)
        raw == checked.message
        opened == IF has_keys(handler[b])
                  THEN decrypt_message(raw.encrypted_payload, get_private_key(b, handler[b]))
                  ELSE Raise("ValueError", JsonDumps(NoPayload))
        payload == IF Has(raw, "encrypted_payload") THEN JsonLoads(opened.val)
                   ELSE raw.payload
        message == [id |-> raw.id, sender |-> raw.from, recipient |-> raw.to,
                    payload |-> payload, timestamp |-> raw.timestamp,
                    signature |-> raw.signature,
                    encrypted |-> Has(raw, "encrypted_payload"),
                    neural_signature |-> raw.neural_signature]
        outcome ==
            IF ~Has(raw_message, "from") THEN "error"
            ELSE IF ~sender_info.present THEN "unknown_sender"
            ELSE IF ~checked.result THEN "invalid_signature"
            ELSE IF Has(raw, "encrypted_payload") /\ ~opened.ok THEN "error"
            ELSE IF ~Has(raw, "encrypted_payload") /\ ~Has(raw, "payload") THEN "error"
            ELSE IF ~(Has(raw, "neural_signature") /\ StartsWithAgentTag(raw.neural_signature))
                 THEN "no_neural_signature"
            ELSE IF ~(MessageKeys \subseteq raw.keys) THEN "error"
            ELSE "yield"
        err ==
            IF ~Has(raw_message, "from") THEN "KeyError"
            ELSE IF ~sender_info.present \/ ~checked.result THEN "none"
            ELSE IF Has(raw, "encrypted_payload") /\ ~opened.ok THEN opened.err
            ELSE IF ~Has(raw, "encrypted_payload") /\ ~Has(raw, "payload") THEN "KeyError"
            ELSE IF outcome = "error" THEN "KeyError"
            ELSE "none"
    IN  [outcome |-> outcome, err |-> err, message |-> message,
         after |-> IF Has(raw_message, "from") /\ sender_info.present THEN raw ELSE raw_message,
         sender_key |-> sender_info.public_key,
         verified |-> Has(raw_message, "from") /\ sender_info.present /\ checked.result]

next_envelope_newest(s) == Len(s)

\* "async for raw_message in listen_messages(self.address)": the position
\* on the stream of the envelope the loop takes next.
next_envelope(s) == 1

escapes_unknown_sender(outcome) == outcome = "unknown_sender"

escapes_error(outcome) == outcome = "error"

\* Whether what became of one envelope leaves the loop: the body of the
\* loop is inside try/except Exception: ... continue, and the unknown-sender
\* and invalid-signature exits are continue statements.
escapes(outcome) == FALSE

\* What listen_messages(x) has to give: the envelopes submitted for x.
Inbox(x) == IF x \in Addrs THEN stream[x] ELSE <<>>

Without(s, i) == SubSeq(s, 1, i - 1) \o SubSeq(s, i + 1, Len(s))

ReceiveMessages ==
    \E b \in Agents :
        IF ~is_registered(b)
        THEN /\ last.agent # b \/ last.op # "receive_messages"
             /\ UNCHANGED <<handler, identity, address, registry, stream, ledgerCall,
                            offchainPut, store, yielded, lastRx, clock, count, _running,
                            left_listening, loops, aux>>
             /\ last' = Outcome(b, "receive_messages", NoArgs, FALSE, "ValueError", NoRet, <<>>)
        ELSE /\ Inbox(address[b]) # <<>>
             /\ UNCHANGED <<handler, identity, address, registry, ledgerCall, offchainPut,
                            store, clock, count, _running, left_listening, loops, aux>>
             /\ LET i == next_envelope(Inbox(address[b]))
                    raw_message == Inbox(address[b])[i]
                    done == process_incoming(b, raw_message)
                    out == IF done.outcome = "yield" THEN Append(yielded[b], done.message)
                           ELSE yielded[b]
                IN  /\ stream' = [stream EXCEPT ![address[b]] = Without(@, i)]
                    /\ yielded' = [yielded EXCEPT ![b] = out]
                    /\ lastRx' = [agent |-> b, outcome |-> done.outcome, raw |-> raw_message,
                                  after |-> done.after, sender_key |-> done.sender_key,
                                  verified |-> done.verified, err |-> done.err,
                                  fatal |-> escapes(done.outcome),
                                  prev |-> IF lastRx.agent = b
                                           THEN [outcome |-> lastRx.outcome, err |-> lastRx.err]
                                           ELSE NoRx.prev,
                                  overtaken |-> i - 1,
                                  waiting |-> Len(Inbox(address[b])) - i,
                                  yielded_before |-> Len(yielded[b]),
                                  yielded_after |-> Len(out)]
                    /\ IF escapes(done.outcome)
                       THEN last' = Outcome(b, "receive_messages", NoArgs, FALSE,
                                            "Exception", NoRet, <<"listen_messages">>)
                       ELSE UNCHANGED last

----------------------------------------------------------------------------
(* Other parties on the shared ledger *)

\* Envelopes anyone can read off the ledger.
Observed == {ledgerCall.metadata} \cup UNION {{stream[x][i] : i \in 1..Len(stream[x])} : x \in Addrs}


\* An envelope from a sender that signs the canonical bytes as they are,
\* with the bare signer of the crypto manager; it may omit the agent tag,
\* and may carry a block sealed to the sender's own encryption key.
ForeignEnvelope(s, x, tagged, sealed) ==
    LET d == [EmptyDict EXCEPT
                 !.keys = {"id", "from", "to", "payload", "timestamp", "priority"}
                          \cup (IF tagged THEN {"neural_signature"} ELSE {})
                          \cup (IF sealed THEN {"encrypted_payload"} ELSE {}),
                 !.encrypted_payload =
                     IF sealed
                     THEN encrypt_message(JsonDumps(NoPayload), get_public_key(s, handler[s])).val
                     ELSE NoBlock,
                 !.id = clock, !.from = get_address(s, handler[s]).val, !.to = x,
                 !.payload = Payload("amount100", Threshold - HeaderLen - SignatureFieldLen),
                 !.timestamp = clock, !.priority = "normal",
                 !.neural_signature = IF tagged THEN NeuralSignature(s) ELSE NoNeural]
    IN  SetSignature(d, sign_message(Canon(d), SigKey(s, handler[s])).val)

Foreign ==
    {ForeignEnvelope(s, x, form.tagged, form.sealed) :
        s \in {a \in Agents : has_keys(handler[a])}, x \in Registered,
        form \in {[tagged |-> FALSE, sealed |-> FALSE], [tagged |-> TRUE, sealed |-> FALSE],
                  [tagged |-> TRUE, sealed |-> TRUE]}}

\* An envelope an agent signed for one recipient, presented with another.
Replays ==
    {[m EXCEPT !.to = x] :
        m \in {o \in Observed \cup Foreign : Has(o, "to") /\ Has(o, "signature")},
        x \in Registered}

ThirdPartySubmit ==
    \E e \in Replays \cup Foreign :
        /\ count.env < MaxEnv
        /\ count' = [count EXCEPT !.env = @ + 1]
        /\ stream' = [stream EXCEPT ![e.to] = Append(@, e)]
        /\ UNCHANGED <<handler, identity, address, registry, ledgerCall, offchainPut, store,
                       yielded, lastRx, last, clock, _running, left_listening, loops, aux>>

\* The registry clears the active flag of an identity it holds.
LedgerRevoke ==
    \E x \in Registered :
        /\ registry[x].is_active
        /\ count.env < MaxEnv
        /\ count' = [count EXCEPT !.env = @ + 1]
        /\ registry' = [registry EXCEPT ![x].is_active = FALSE]
        /\ UNCHANGED <<handler, identity, address, stream, ledgerCall, offchainPut, store,
                       yielded, lastRx, last, clock, _running, left_listening, loops, aux>>

Next ==
    \/ Register
    \/ InstallIdentity
    \/ SendMessage
    \/ ReceiveMessages
    \/ ThirdPartySubmit
    \/ LedgerRevoke

Spec == Init /\ [][Next]_vars

----------------------------------------------------------------------------
(* Key rotation and the listening loop *)

\* CryptoHandler.rotate_keys: the files of the present keys are copied to
\* a backup directory, then generate_keys replaces all four keys.
rotate_keys(h) == generate_keys(h)

RotateKeys ==
    \E a \in Agents :
        /\ handler[a].gen < MaxGen
        /\ handler' = [handler EXCEPT ![a] = rotate_keys(handler[a])]
        /\ UNCHANGED <<identity, address, registry, stream, ledgerCall, offchainPut, store,
                       yielded, lastRx, clock, count, _running, left_listening, loops, aux>>
        /\ last' = Outcome(a, "rotate_keys", NoArgs, TRUE, "none", NoRet, <<>>)

start_listening_no_finally(registered) == [running |-> TRUE, loop |-> registered]

\* start_listening up to its first suspension: _running is set, then the
\* first step of receive_messages either raises at once for want of an
\* identity, which is logged and ends the call through "finally:
\* _running = False", or waits on the stream with the loop in place.
start_listening_result(registered) ==
    IF registered THEN [running |-> TRUE, loop |-> TRUE]
    ELSE [running |-> FALSE, loop |-> FALSE]

StartListening ==
    \E a \in Agents :
        LET r == start_listening_result(is_registered(a))
        IN  /\ count.start < MaxStart
            /\ count' = [count EXCEPT !.start = @ + 1]
            /\ _running' = [_running EXCEPT ![a] = r.running]
            /\ loops' = [loops EXCEPT ![a] = @ + (IF r.loop THEN 1 ELSE 0)]
            /\ UNCHANGED <<handler, identity, address, registry, stream, ledgerCall,
                           offchainPut, store, yielded, lastRx, clock, left_listening, aux>>
            /\ last' = Outcome(a, "start_listening", NoArgs, TRUE,
                               IF r.loop THEN "none" ELSE "ValueError", NoRet,
                               IF r.loop THEN <<"listen_messages">> ELSE <<>>)

\* stop_listening clears the flag; a loop waiting on the stream stays there.
StopListening ==
    \E a \in Agents :
        /\ _running' = [_running EXCEPT ![a] = FALSE]
        /\ left_listening' = [left_listening EXCEPT ![a] = @ \/ _running[a]]
        /\ UNCHANGED <<handler, identity, address, registry, stream, ledgerCall, offchainPut,
                       store, yielded, lastRx, clock, count, loops, aux>>
        /\ last' = Outcome(a, "stop_listening", NoArgs, TRUE, "none", NoRet, <<>>)

\* The stream of a loop fails: receive_messages re-raises, start_listening
\* logs it and leaves through "finally: _running = False".
ListenEnds ==
    \E a \in Agents :
        /\ loops[a] > 0
        /\ loops' = [loops EXCEPT ![a] = @ - 1]
        /\ _running' = [_running EXCEPT ![a] = FALSE]
        /\ left_listening' = [left_listening EXCEPT ![a] = @ \/ _running[a]]
        /\ UNCHANGED <<handler, identity, address, registry, stream, ledgerCall, offchainPut,
                       store, yielded, lastRx, last, clock, count, aux>>

NextLifecycle ==
    \/ Register
    \/ InstallIdentity
    \/ RotateKeys
    \/ StartListening
    \/ StopListening
    \/ ListenEnds

LifecycleSpec == Init /\ [][NextLifecycle]_vars

----------------------------------------------------------------------------
(* The crypto manager on its own: seal, alter, open, sign, verify *)

Plaintexts == {JsonDumps(p) : p \in Payloads \cup {NoPayload}}

RsaKey(a) == Key(a, "enc", "rsa", 1)
EcKey(a) == Key(a, "sig", "ec", 1)

Messages == {Canon(EmptyDict), Canon([EmptyDict EXCEPT !.keys = {"id"}, !.id = 1])}

InitCrypto ==
    /\ InitCore
    /\ \E P \in Plaintexts, a \in Agents, shield \in BOOLEAN :
           LET pair == generate_rsa_keypair(RsaKey(a))
           IN  crypto = [NoCrypto EXCEPT
                            !.step = "keys", !.plaintext = P, !.pair = RsaKey(a),
                            !.private_key = [pair.private EXCEPT !.shield = shield],
                            !.public_key = pair.public]
    /\ ks = NoKeyStore
    /\ verification = NoVerification
    /\ loan = NoLoan
    /\ listen = NoListen

Seal ==
    /\ crypto.step = "keys"
    /\ crypto' = [crypto EXCEPT !.step = "sealed",
                                !.block = encrypt_message(crypto.plaintext, crypto.public_key)]
    /\ UNCHANGED <<core, ks, verification, loan, listen>>

\* Someone between sealer and opener alters the block.
Alter ==
    \E t \in Tampers :
        /\ crypto.step = "sealed"
        /\ crypto.block.ok
        /\ crypto' = [crypto EXCEPT !.step = "altered", !.tamper = t, !.block.val.tamper = t]
        /\ UNCHANGED <<core, ks, verification, loan, listen>>

\* The private keys a block may be opened with: the recipient's, as
\* generated; another recipient's; the recipient's signing key; and bytes
\* that are no key.
Openers ==
    {crypto.private_key, InvalidPrivateKey, PrivPem(EcKey(crypto.pair.owner), FALSE)}
    \cup {generate_rsa_keypair(RsaKey(a)).private : a \in Agents}

Open ==
    \E opener \in Openers :
        /\ crypto.step \in {"sealed", "altered"}
        /\ crypto.block.ok
        /\ crypto' = [crypto EXCEPT
                         !.step = "opened", !.opener = opener,
                         !.opened = decrypt_message_from_pem(crypto.block.val, opener),
                         !.steps =
                             LET k == load_pem_private_key(strip_quantum_shield(opener))
                             IN  IF k.ok THEN decrypt_steps(crypto.block.val, k.val)
                                 ELSE <<>>]
        /\ UNCHANGED <<core, ks, verification, loan, listen>>

Sign ==
    \E m \in Messages, a \in Agents :
        /\ crypto.step = "opened"
        /\ crypto' = [crypto EXCEPT !.step = "signed", !.message = m, !.signer = EcKey(a),
                                    !.signature = sign_message(m, EcKey(a))]
        /\ UNCHANGED <<core, ks, verification, loan, listen>>

\* The public keys a signature may be checked under: an ECDSA key's PEM,
\* an RSA key's PEM, the base64 text of a PEM, and no key at all.
PublicKeys ==
    {Pem(EcKey(a)) : a \in Agents} \cup {Pem(RsaKey(a)) : a \in Agents}
    \cup {B64(Pem(EcKey(a))) : a \in Agents} \cup {NoPub}

Verify ==
    \E m \in Messages, pub \in PublicKeys :
        /\ crypto.step = "signed"
        /\ crypto.signature.ok
        /\ crypto' = [crypto EXCEPT
                         !.step = "verified", !.presented = m, !.pub = pub,
                         !.verdict = verify_signature(m, crypto.signature.val, pub)]
        /\ UNCHANGED <<core, ks, verification, loan, listen>>

NextCrypto ==
    \/ Seal
    \/ Alter
    \/ Open
    \/ Sign
    \/ Verify

CryptoSpec == InitCrypto /\ [][NextCrypto]_vars

----------------------------------------------------------------------------
(* One CryptoHandler and its key store: construction, generate_keys,       *)
(* _save_keys, rotate_keys, step by step, with the process that hosts it   *)
(* liable to stop between any two steps                                    *)

HasKeys(mem) == \A s \in SlotSet : mem[s] # 0

\* The four files are read, unchecked, when all four exist.
_load_existing_keys(files) ==
    IF \A f \in FileSet : files[f] # 0
    THEN [s \in SlotSet |-> files[KeyFiles[CHOOSE i \in 1..4 : KeySlots[i] = s]]]
    ELSE NoMaterial

\* The signing pair is derived from the key given and an RSA pair is
\* generated beside it; nothing is written.
_load_from_private_key(g) == [s \in SlotSet |-> g]

\* shutil.copy2 of each key file that exists into the backup directory,
\* over whatever that directory holds.
backup_copy(dir, files) == [f \in FileSet |-> IF files[f] # 0 THEN files[f] ELSE dir[f]]

\* int(time.time()): the whole second.
timestamp(time) == time

rotation_yields_loop(pc) == FALSE

\* rotate_keys, generate_keys and _save_keys await nothing that suspends:
\* from its first statement to its last the call keeps the event loop, and
\* no other coroutine of the host runs.
rotation_holds_loop(pc) == pc # "idle"

InitKeyStore ==
    /\ InitCore
    /\ crypto = NoCrypto
    /\ \E built \in {"empty", "private_key", "existing"} :
           ks = [NoKeyStore EXCEPT
                    !.mem = IF built = "empty" THEN NoMaterial ELSE _load_from_private_key(1),
                    !.files = IF built = "existing" THEN [f \in FileSet |-> 1] ELSE NoFiles,
                    !.next = IF built = "empty" THEN 1 ELSE 2]
    /\ verification = NoVerification
    /\ loan = NoLoan
    /\ listen = NoListen

\* generate_keys called on a handler without keys, as register does.
GenerateKeysBegin ==
    /\ ks.pc = "idle"
    /\ ~HasKeys(ks.mem)
    /\ ks.next <= MaxKeyGen
    /\ ks' = [ks EXCEPT !.pc = "generate_rsa"]
    /\ UNCHANGED <<core, crypto, verification, loan, listen>>

\* rotate_keys up to its call of generate_keys: the key files that exist
\* are copied to backup/keys_<timestamp> when the handler holds keys.
RotateKeysBegin ==
    /\ ks.pc = "idle"
    /\ ks.next <= MaxKeyGen
    /\ ks' = [ks EXCEPT
                 !.pc = "generate_rsa",
                 !.backup = IF HasKeys(ks.mem)
                            THEN [@ EXCEPT ![timestamp(ks.time)] = backup_copy(@, ks.files)]
                            ELSE @,
                 !.replaced = IF HasKeys(ks.mem) THEN @ \cup {ks.mem} ELSE @]
    /\ UNCHANGED <<core, crypto, verification, loan, listen>>

\* generate_keys: the RSA pair is assigned, then the ECDSA pair.
GenerateKeysStep ==
    /\ ks.pc \in {"generate_rsa", "generate_ecdsa"}
    /\ ks' = IF ks.pc = "generate_rsa"
             THEN [ks EXCEPT !.pc = "generate_ecdsa",
                             !.mem["_private_key_pem"] = ks.next,
                             !.mem["_public_key_pem"] = ks.next]
             ELSE [ks EXCEPT !.pc = "save", !.i = 1,
                             !.mem["_ecdsa_private_key"] = ks.next,
                             !.mem["_ecdsa_public_key"] = ks.next]
    /\ UNCHANGED <<core, crypto, verification, loan, listen>>

\* _save_keys: one write_bytes, over the file of that name.
SaveKeysStep ==
    /\ ks.pc = "save"
    /\ ks' = [ks EXCEPT !.files[KeyFiles[ks.i]] = ks.mem[KeySlots[ks.i]],
                        !.i = IF ks.i = 4 THEN 1 ELSE ks.i + 1,
                        !.pc = IF ks.i = 4 THEN "metadata" ELSE "save"]
    /\ UNCHANGED <<core, crypto, verification, loan, listen>>

\* _save_keys: the chmods and metadata.json; the call returns.
SaveMetadata ==
    /\ ks.pc = "metadata"
    /\ ks' = [ks EXCEPT !.pc = "idle", !.next = @ + 1]
    /\ UNCHANGED <<core, crypto, verification, loan, listen>>

Tick ==
    /\ ks.time < MaxTime
    /\ ks' = [ks EXCEPT !.time = @ + 1]
    /\ UNCHANGED <<core, crypto, verification, loan, listen>>

\* The host process stops: what the handler holds in memory is gone, the
\* files stay as they are.
Crash ==
    /\ ks.pc # "down"
    /\ ks.crashes < MaxCrash
    /\ ks' = [ks EXCEPT !.pc = "down", !.crashes = @ + 1, !.mem = NoMaterial,
                        !.send = NoKeyStore.send]
    /\ UNCHANGED <<core, crypto, verification, loan, listen>>

\* A new process constructs CryptoHandler() over the same key store.
Restart ==
    /\ ks.pc = "down"
    /\ ks' = [ks EXCEPT !.pc = "idle", !.i = 1, !.mem = _load_existing_keys(ks.files)]
    /\ UNCHANGED <<core, crypto, verification, loan, listen>>

\* send_message up to its first suspension, awaiting get_agent_info.
SendAwaitsLedger ==
    /\ ks.pc # "down"
    /\ ~rotation_holds_loop(ks.pc)
    /\ ks.send.pc = "idle"
    /\ HasKeys(ks.mem)
    /\ ks' = [ks EXCEPT !.send = [pc |-> "awaiting", since |-> ks.mem]]
    /\ UNCHANGED <<core, crypto, verification, loan, listen>>

\* send_message resumed: the envelope is built and crypto_handler
\* .sign_message reads the signing key.
SendSigns ==
    /\ ks.pc # "down"
    /\ ~rotation_holds_loop(ks.pc)
    /\ ks.send.pc = "awaiting"
    /\ ks' = [ks EXCEPT !.send = NoKeyStore.send,
                        !.read = [by |-> "send_message", during |-> ks.pc,
                                  keys |-> ks.mem, since |-> ks.send.since]]
    /\ UNCHANGED <<core, crypto, verification, loan, listen>>

\* receive_messages resumed with an envelope: get_private_key is read to
\* open its block.
ReceiveOpens ==
    /\ ks.pc # "down"
    /\ ~rotation_holds_loop(ks.pc)
    /\ HasKeys(ks.mem)
    /\ ks' = [ks EXCEPT !.read = [by |-> "receive_messages", during |-> ks.pc,
                                  keys |-> ks.mem, since |-> ks.mem]]
    /\ UNCHANGED <<core, crypto, verification, loan, listen>>

NextKeyStore ==
    \/ GenerateKeysBegin
    \/ RotateKeysBegin
    \/ GenerateKeysStep
    \/ SaveKeysStep
    \/ SaveMetadata
    \/ Tick
    \/ Crash
    \/ Restart
    \/ SendAwaitsLedger
    \/ SendSigns
    \/ ReceiveOpens

KeyStoreSpec == InitKeyStore /\ [][NextKeyStore]_vars

----------------------------------------------------------------------------
(* SecureAgent.verify_agent_identity *)

\* json.loads(text): a dict for the text of an object; anything else either
\* raises here or gives a value without .get.
json_loads(doc) ==
    IF doc.form = "object" THEN Ok(doc)
    ELSE IF doc.form = "array" THEN Raise("AttributeError", doc)
    ELSE IF doc.form = "none" THEN Raise("TypeError", doc)
    ELSE Raise("JSONDecodeError", doc)

verify_agent_identity_tag_required(agent_info) ==
    IF agent_info.raises \/ ~agent_info.present THEN Ok(FALSE)
    ELSE IF ~(agent_info.has_active /\ agent_info.is_active) THEN Ok(FALSE)
    ELSE LET did_doc == json_loads(IF agent_info.has_did THEN agent_info.did ELSE EmptyObject)
         IN  Ok(did_doc.ok /\ did_doc.val.neural = "AICUBE_AGENT_")

\* The whole body is inside try/except Exception: return False. Both
\* branches of the test on the neural signature return True; the test
\* itself raises when the signature is not a string.
verify_agent_identity(agent_info) ==
    IF agent_info.raises \/ ~agent_info.present THEN Ok(FALSE)
    ELSE IF ~(agent_info.has_active /\ agent_info.is_active) THEN Ok(FALSE)
    ELSE LET did_doc == json_loads(IF agent_info.has_did THEN agent_info.did ELSE EmptyObject)
         IN  IF ~did_doc.ok THEN Ok(FALSE)
             ELSE IF did_doc.val.neural = "null" THEN Ok(FALSE)
             ELSE Ok(TRUE)

Docs ==
    {Doc("object", n) : n \in {"absent", "AICUBE_AGENT_", "other", "null"}}
    \cup {Doc("array", "absent"), Doc("malformed", "absent"), Doc("none", "absent")}

Lookups ==
    {LookupRaises, LookupNone}
    \cup {Lookup(FALSE, TRUE, FALSE, FALSE, has_did, IF has_did THEN d ELSE EmptyObject) :
             has_did \in BOOLEAN, d \in Docs}
    \cup {Lookup(FALSE, TRUE, TRUE, active, has_did, IF has_did THEN d ELSE EmptyObject) :
             active \in BOOLEAN, has_did \in BOOLEAN, d \in Docs}

InitIdentity ==
    /\ InitCore
    /\ crypto = NoCrypto
    /\ ks = NoKeyStore
    /\ loan = NoLoan
    /\ listen = NoListen
    /\ \E l \in Lookups : verification = [NoVerification EXCEPT !.lookup = l]

\* The ledger's answer for the address changes.
LedgerAnswers ==
    \E l \in Lookups \ {verification.lookup} :
        /\ verification' = [verification EXCEPT !.lookup = l]
        /\ UNCHANGED <<core, crypto, ks, loan, listen>>

VerifyAgentIdentity ==
    /\ verification' = [verification EXCEPT
                           !.called = TRUE, !.on = verification.lookup,
                           !.ret = verify_agent_identity(verification.lookup)]
    /\ UNCHANGED <<core, crypto, ks, loan, listen>>

NextIdentity ==
    \/ LedgerAnswers
    \/ VerifyAgentIdentity

IdentitySpec == InitIdentity /\ [][NextIdentity]_vars

----------------------------------------------------------------------------
(* LoanProcessingWorkflow of the banking consortium example *)

\* The coroutines process_loan_application awaits, in the order it awaits
\* them, and the "step" of the audit entry each of the first three returns.
WorkflowSteps ==
    <<"_underwriting_assessment", "_fraud_detection_screening", "_compliance_verification",
      "_coordinate_final_decision", "_record_decision_blockchain">>
AuditSteps == <<"underwriting_assessment", "fraud_screening", "compliance_verification">>

AuditEntry(k, run) ==
    [step |-> AuditSteps[k],
     risk_score |-> IF k = 1 THEN run.risk_score ELSE 0,
     fraud_risk_score |-> IF k = 2 THEN run.fraud_risk ELSE 0,
     overall_status |-> IF k = 3 THEN run.compliance_status ELSE "none"]

\* application.get("amount", 0)
application_get_amount(application) ==
    IF application.has_amount THEN application.amount ELSE 0

\* The decision taken from the three audit entries; fraud risk is held in
\* thousandths.
_coordinate_final_decision(application, audit_trail) ==
    LET risk_score == audit_trail[1].risk_score
        fraud_risk == audit_trail[2].fraud_risk_score
        compliance_status == audit_trail[3].overall_status
    IN  IF risk_score >= RiskScoreFloor /\ fraud_risk < FraudRiskLimit
           /\ compliance_status = "COMPLIANT"
        THEN [status |-> "APPROVED", loan_amount |-> application_get_amount(application)]
        ELSE [status |-> "REJECTED", loan_amount |-> 0]

processing_failed_reraises(audit_trail) ==
    [NoResponse EXCEPT !.raised = TRUE]

\* "except Exception as e": the failure is logged and returned.
processing_failed(audit_trail) ==
    [returned |-> TRUE, raised |-> FALSE,
     decision |-> [status |-> "PROCESSING_FAILED", loan_amount |-> 0],
     audit_trail |-> audit_trail, has_failure_record |-> TRUE]

Applications ==
    {Application(FALSE, 0, TRUE, 250000), Application(TRUE, 250000, FALSE, 0),
     Application(TRUE, 1000, TRUE, 250000), Application(FALSE, 0, FALSE, 0)}

InitLoan ==
    /\ InitCore
    /\ listen = NoListen
    /\ crypto = NoCrypto
    /\ ks = NoKeyStore
    /\ verification = NoVerification
    /\ \E application \in Applications, fails_at \in 0..5,
          risk_score \in {RiskScoreFloor - 1, RiskScoreFloor, 750},
          fraud_risk \in {150, FraudRiskLimit - 1, FraudRiskLimit},
          compliance_status \in {"COMPLIANT", "NON_COMPLIANT"} :
           loan = [NoLoan EXCEPT
                      !.application = application, !.fails_at = fails_at,
                      !.risk_score = risk_score, !.fraud_risk = fraud_risk,
                      !.compliance_status = compliance_status]

\* process_loan_application is at its k-th await.
AtStep(k) == ~loan.response.returned /\ ~loan.response.raised /\ Len(loan.ran) = k - 1

\* One of the first three steps: its entry is appended to the audit trail,
\* or its exception is caught and the failure returned.
AuditStep(k) ==
    /\ AtStep(k)
    /\ loan' = IF loan.fails_at = k
               THEN [loan EXCEPT !.ran = Append(@, WorkflowSteps[k]),
                                 !.response = processing_failed(loan.audit_trail)]
               ELSE [loan EXCEPT !.ran = Append(@, WorkflowSteps[k]),
                                 !.audit_trail = Append(@, AuditEntry(k, loan))]
    /\ UNCHANGED <<core, crypto, ks, verification, listen>>

UnderwritingAssessment == AuditStep(1)

FraudDetectionScreening == AuditStep(2)

ComplianceVerification == AuditStep(3)

CoordinateFinalDecision ==
    /\ AtStep(4)
    /\ loan' = IF loan.fails_at = 4
               THEN [loan EXCEPT !.ran = Append(@, WorkflowSteps[4]),
                                 !.response = processing_failed(loan.audit_trail)]
               ELSE [loan EXCEPT !.ran = Append(@, WorkflowSteps[4]),
                                 !.decision = _coordinate_final_decision(loan.application,
                                                                         loan.audit_trail)]
    /\ UNCHANGED <<core, crypto, ks, verification, listen>>

RecordDecisionBlockchain ==
    /\ AtStep(5)
    /\ loan' = IF loan.fails_at = 5
               THEN [loan EXCEPT !.ran = Append(@, WorkflowSteps[5]),
                                 !.response = processing_failed(loan.audit_trail)]
               ELSE [loan EXCEPT !.ran = Append(@, WorkflowSteps[5]),
                                 !.response = [returned |-> TRUE, raised |-> FALSE,
                                               decision |-> loan.decision,
                                               audit_trail |-> loan.audit_trail,
                                               has_failure_record |-> FALSE]]
    /\ UNCHANGED <<core, crypto, ks, verification, listen>>

NextLoan ==
    \/ UnderwritingAssessment
    \/ FraudDetectionScreening
    \/ ComplianceVerification
    \/ CoordinateFinalDecision
    \/ RecordDecisionBlockchain

LoanSpec == InitLoan /\ [][NextLoan]_vars

----------------------------------------------------------------------------
(* receive_messages behind a ledger listener that relays what it is given *)

\* listen_messages(x) filters the ledger's events on their "to" argument,
\* the recipient the submitter named, and then updates the dict it yields
\* with the submitted metadata: the envelope's own "to" is whatever its
\* signer wrote, and need not be x. The submission counts among the sends
\* the ledger takes.
ListenerDelivers ==
    \E e \in Foreign, x \in Registered :
        /\ count.send < MaxSend
        /\ count' = [count EXCEPT !.send = @ + 1]
        /\ stream' = [stream EXCEPT ![x] = Append(@, e)]
        /\ UNCHANGED <<handler, identity, address, registry, ledgerCall, offchainPut, store,
                       yielded, lastRx, last, clock, _running, left_listening, loops, aux>>

NextReceive ==
    \/ Register
    \/ InstallIdentity
    \/ ListenerDelivers
    \/ LedgerRevoke
    \/ ReceiveMessages

ReceiveSpec == Init /\ [][NextReceive]_vars

----------------------------------------------------------------------------
(* start_listening: the loop over receive_messages and its dispatch *)

\* message.payload.get("type", "default")
message_type(message) == IF message.has_type THEN message.type ELSE "default"

\* "if message_type in self._message_handlers: ... else: default processing"
dispatch_path(handlers, message) ==
    IF message_type(message) \in handlers THEN "handler" ELSE "default"

\* What can raise on each path: the custom handler; process_with_llm or the
\* reply's send_message.
Failures(path) == IF path = "handler" THEN {"none", "handler"} ELSE {"none", "llm", "send"}

after_dispatch_propagates(failed) == IF failed = "none" THEN "waiting" ELSE "exited"

\* Both paths sit in their own try/except Exception inside the loop: after
\* a dispatch, failed or not, the loop asks for the next Message.
after_dispatch(failed) == "waiting"

\* f"msg_{int(time.time() * 1000000)}"
message_id(now) == now

\* payload={"type": "response", "data": response}
Reply(a) == Msg(a, TRUE, "response", TRUE)

\* Every loop has its own receive_messages generator, hence its own
\* listener on the ledger: a Message for r reaches each loop of r in place.
Delivered(lp, r, m) ==
    [lp EXCEPT ![r] = [l \in 1..MaxLoops |->
                          IF lp[r][l].pc = "waiting"
                          THEN [lp[r][l] EXCEPT !.queue = Append(@, m)]
                          ELSE lp[r][l]]]

Room(lp, r) == \A l \in 1..MaxLoops : Len(lp[r][l].queue) < MaxQueue

\* A call of send_message: the caller, the identifier it made, whether the
\* call answers a Message and whether that Message was itself an automatic
\* reply, and whether the call returned.
SentRecord(a, answers, message, returned) ==
    [by |-> a, id |-> message_id(listen.now), answers |-> answers,
     answers_auto |-> answers /\ message.auto, returned |-> returned]

Started == Cardinality({al \in Agents \X (1..MaxLoops) : listen.lp[al[1]][al[2]].pc # "none"})

\* Two agents that hold framework keys and a registered identity; each may
\* have a custom handler for payloads of type "task".
InitListen ==
    LET h == generate_keys(NoKeys)
        x(a) == get_address(a, h).val
    IN  /\ handler = [a \in Agents |-> h]
        /\ identity = [a \in Agents |->
                          [set |-> TRUE, address |-> x(a), public_key |-> get_public_key(a, h),
                           registration_time |-> 0]]
        /\ address = [a \in Agents |-> x(a)]
        /\ registry = [y \in Addrs |->
                          IF \E a \in Agents : y = x(a)
                          THEN [present |-> TRUE,
                                public_key |-> get_public_key(CHOOSE a \in Agents : y = x(a), h),
                                is_active |-> TRUE]
                          ELSE NoInfo]
        /\ stream = [y \in Addrs |-> <<>>]
        /\ ledgerCall = NoLedgerCall
        /\ offchainPut = NoPut
        /\ store = {}
        /\ yielded = [a \in Agents |-> <<>>]
        /\ lastRx = NoRx
        /\ last = NoCall
        /\ _running = [a \in Agents |-> FALSE]
        /\ left_listening = [a \in Agents |-> FALSE]
        /\ loops = [a \in Agents |-> 0]
        /\ clock = 0
        /\ count = [register |-> 0, send |-> 0, env |-> 0, start |-> 0]
        /\ crypto = NoCrypto
        /\ ks = NoKeyStore
        /\ verification = NoVerification
        /\ loan = NoLoan
        /\ \E hs \in [Agents -> {{}, {"task"}}] : listen = [NoListen EXCEPT !.handlers = hs]

\* start_listening: _running is set and the loop takes its place on a
\* receive_messages generator of its own, whatever other loops there are.
ListenStart ==
    \E a \in Agents, l \in 1..MaxLoops :
        LET r == start_listening_result(is_registered(a))
        IN  /\ Started < MaxStart
            /\ listen.lp[a][l].pc = "none"
            /\ \A k \in 1..(l - 1) : listen.lp[a][k].pc # "none"
            /\ listen' = [listen EXCEPT
                             !.running[a] = r.running,
                             !.lp[a][l].pc = IF r.loop THEN "waiting" ELSE "exited"]
            /\ UNCHANGED <<core, crypto, ks, verification, loan>>

\* stop_listening clears the flag and returns; no loop is woken.
ListenStop ==
    \E a \in Agents :
        /\ listen' = [listen EXCEPT
                         !.running[a] = FALSE,
                         !.lp[a] = [l \in 1..MaxLoops |->
                                       IF listen.lp[a][l].pc = "waiting"
                                       THEN [listen.lp[a][l] EXCEPT !.stopped = TRUE]
                                       ELSE listen.lp[a][l]]]
        /\ UNCHANGED <<core, crypto, ks, verification, loan>>

\* An agent's own call of send_message to its peer, with or without a
\* "type" in the payload; the ledger takes the envelope or raises.
SendToPeer ==
    \E s \in Agents, r \in Agents, has_type \in BOOLEAN, accept \in BOOLEAN :
        /\ r # s
        /\ listen.calls < MaxCalls
        /\ Len(listen.sent) < MaxSent
        /\ Room(listen.lp, r)
        /\ listen' = [listen EXCEPT
                         !.calls = @ + 1,
                         !.sent = Append(@, SentRecord(s, FALSE, NoMsg, accept)),
                         !.lp = IF accept
                                THEN Delivered(@, r, Msg(s, has_type,
                                                         IF has_type THEN "task" ELSE "none",
                                                         FALSE))
                                ELSE @]
        /\ UNCHANGED <<core, crypto, ks, verification, loan>>

\* One turn of "async for message in self.receive_messages()": the loop
\* leaves by "break" and "finally" when _running is false, else the Message
\* goes to its handler or to default processing, whose reply is sent to
\* the Message's sender.
ListenTake(a, l) ==
    LET loop == listen.lp[a][l]
        message == Head(loop.queue)
        path == dispatch_path(listen.handlers[a], message)
    IN  /\ loop.pc = "waiting"
        /\ loop.queue # <<>>
        /\ IF ~listen.running[a]
           THEN listen' = [listen EXCEPT
                              !.lp[a][l] = [@ EXCEPT !.pc = "exited", !.queue = <<>>],
                              !.dispatch = [agent |-> a, loop |-> l,
                                            path |-> "break", failed |-> "none",
                                            prev_failed |-> loop.failed,
                                            stopped |-> loop.stopped, pc_after |-> "exited",
                                            running_after |-> FALSE]]
           ELSE \E failed \in Failures(path) :
                    LET pc_after == after_dispatch(failed)
                        sends == path = "default" /\ failed # "llm"
                        lp1 == [listen.lp EXCEPT
                                   ![a][l] = [@ EXCEPT
                                                 !.pc = pc_after,
                                                 !.queue = IF pc_after = "waiting" THEN Tail(@)
                                                           ELSE <<>>,
                                                 !.failed = failed]]
                        running_after == pc_after # "exited"
                    IN  /\ path = "default"
                           => Len(listen.sent) < MaxSent /\ Room(lp1, message.sender)
                        /\ listen' = [listen EXCEPT
                               !.lp = IF sends /\ failed = "none"
                                      THEN Delivered(lp1, message.sender, Reply(a))
                                      ELSE lp1,
                               !.running[a] = running_after,
                               !.sent = IF sends
                                        THEN Append(@, SentRecord(a, TRUE, message, failed = "none"))
                                        ELSE @,
                               !.dispatch = [agent |-> a, loop |-> l,
                                             path |-> path, failed |-> failed,
                                             prev_failed |-> loop.failed,
                                             stopped |-> loop.stopped, pc_after |-> pc_after,
                                             running_after |-> running_after]]
        /\ UNCHANGED <<core, crypto, ks, verification, loan>>

ListenTakes == \E a \in Agents, l \in 1..MaxLoops : ListenTake(a, l)

\* The stream of a loop raises: receive_messages re-raises, start_listening
\* logs it and leaves through "finally: _running = False".
ListenFails ==
    \E a \in Agents, l \in 1..MaxLoops :
        /\ listen.lp[a][l].pc = "waiting"
        /\ listen' = [listen EXCEPT
                         !.lp[a][l] = [@ EXCEPT !.pc = "exited", !.queue = <<>>],
                         !.running[a] = FALSE]
        /\ UNCHANGED <<core, crypto, ks, verification, loan>>

TimePasses ==
    /\ listen.now < MaxTime
    /\ listen' = [listen EXCEPT !.now = @ + 1]
    /\ UNCHANGED <<core, crypto, ks, verification, loan>>

NextListen ==
    \/ ListenStart
    \/ ListenStop
    \/ SendToPeer
    \/ ListenTakes
    \/ ListenFails
    \/ TimePasses

ListenSpec == InitListen /\ [][NextListen]_vars

\* A loop that has a Message to take does take it: the event loop runs
\* every coroutine that is ready.
ListenFairSpec ==
    ListenSpec /\ \A a \in Agents, l \in 1..MaxLoops : WF_vars(ListenTake(a, l))

----------------------------------------------------------------------------
(* Properties *)

Called(c, op) == \E i \in 1..Len(c.calls) : c.calls[i] = op

\* The last completed call is a send_message that reached the ledger, so
\* ledgerCall is the call it made.
SendReachedLedger == last.op = "send_message" /\ Called(last, "send_message")

\* C1 (end-to-end delivery): once agents A and B are both registered and A
\* has called send_message(B.address, P, encrypt=True) on a ledger that
\* accepts and relays the envelope unchanged, with no other party on the
\* stream, B's receive_messages, having taken all there is on B's stream,
\* has yielded exactly one Message: payload P, sender A's address,
\* recipient B's address.
EndToEndDelivery ==
    \A a \in Agents, b \in Agents :
        ( /\ a # b
          /\ last.agent = a
          /\ last.op = "send_message"
          /\ last.args.encrypt
          /\ last.args.accept
          /\ last.preIdentity.set
          /\ identity[b].set
          /\ last.args.recipient = address[b]
          /\ count.env = 0
          /\ stream[address[b]] = <<>> )
        => /\ Len(yielded[b]) = 1
           /\ yielded[b][1].payload = last.args.payload
           /\ yielded[b][1].sender = address[a]
           /\ yielded[b][1].recipient = address[b]

\* C2 (payload confidentiality): after send_message(..., encrypt=True) the
\* cleartext payload is in nothing the agent handed to the ledger or to
\* off-chain storage.
PayloadConfidentiality ==
    (SendReachedLedger /\ last.args.encrypt)
    => /\ ~Has(ledgerCall.metadata, "payload")
       /\ ledgerCall.has_ipfs => ~Has(offchainPut.data, "payload")

\* What the underlying verifier says of a raw envelope under a key.
VerifierAccepts(raw, key) ==
    /\ Has(raw, "signature")
    /\ verify_signature(Canon(PopSignature(raw)), raw.signature, key)

SenderResolved == lastRx.agent # "none" /\ Has(lastRx.raw, "from") /\ lastRx.outcome # "unknown_sender"

\* C3 (signature check on receipt): receive_messages yields no Message for
\* an envelope whose signature does not verify under the key the ledger
\* resolves for the claimed sender: it is dropped as an invalid signature;
\* and _verify_message_signature answers true exactly when the underlying
\* verifier accepts, false when it rejects or cannot be applied.
SignatureCheckOnReceipt ==
    LET accepted == VerifierAccepts(lastRx.raw, lastRx.sender_key)
    IN  /\ lastRx.outcome = "yield" => accepted
        /\ SenderResolved => lastRx.verified = accepted
        /\ (SenderResolved /\ ~accepted) => lastRx.outcome = "invalid_signature"

\* C3 witness: an envelope that carries a signature the verifier rejects
\* was taken and dropped.
SignatureCheckOnReceipt_Witness ==
    /\ SenderResolved
    /\ Has(lastRx.raw, "signature")
    /\ lastRx.raw.signature # NoSig
    /\ ~VerifierAccepts(lastRx.raw, lastRx.sender_key)
    /\ lastRx.outcome = "invalid_signature"
    /\ yielded[lastRx.agent] = <<>>

\* The envelope as it was when signed for recipient x.
Readdressed(raw, x) == [raw EXCEPT !.to = x]

\* raw carries a signature made over the envelope addressed to another
\* recipient than the one it is presented with.
IsReplay(raw) ==
    /\ Has(raw, "signature")
    /\ Has(raw, "to")
    /\ \E x \in Addrs \ {raw.to} :
           LET e == Canon(PopSignature(Readdressed(raw, x)))
           IN  raw.signature.bytes \in {e, WithPattern(e)}

\* C4 (replay protection): an envelope signed for one recipient and
\* presented with a different recipient address fails signature
\* verification at the receiver, and no Message is yielded for it.
ReplayProtection ==
    (lastRx.agent # "none" /\ IsReplay(lastRx.raw))
    => /\ ~lastRx.verified
       /\ lastRx.outcome # "yield"
       /\ SenderResolved => lastRx.outcome = "invalid_signature"

\* C4 witness: the receiver resolved the signer's own verification key, the
\* envelope as it was signed verifies under it, and the re-addressed copy
\* was dropped.
ReplayProtection_Witness ==
    /\ SenderResolved
    /\ IsReplay(lastRx.raw)
    /\ \E x \in Addrs \ {lastRx.raw.to} :
           VerifierAccepts(Readdressed(lastRx.raw, x), lastRx.sender_key)
    /\ lastRx.outcome = "invalid_signature"

\* C5 (size dispatch): a signed envelope of at most 1024 bytes goes to the
\* ledger inline, with no off-chain reference; one of 1025 bytes or more
\* goes to off-chain storage and the ledger gets the reference.
SizeDispatchBoundary ==
    SendReachedLedger
    => IF ledgerCall.has_ipfs
       THEN /\ offchainPut.any
            /\ Has(offchainPut.data, "signature")
            /\ JsonLen(offchainPut.data) >= Threshold + 1
            /\ Has(ledgerCall.metadata, "ipfs_hash")
            /\ ledgerCall.ipfs_hash = ledgerCall.metadata.ipfs_hash
            /\ ledgerCall.ipfs_hash # NoHash
       ELSE /\ Has(ledgerCall.metadata, "signature")
            /\ JsonLen(ledgerCall.metadata) <= Threshold
            /\ ~Has(ledgerCall.metadata, "ipfs_hash")
            /\ ledgerCall.ipfs_hash = NoHash

\* C5 witness: an envelope of exactly 1024 bytes went inline.
SizeDispatchBoundary_Witness ==
    /\ SendReachedLedger
    /\ last.ok
    /\ ~ledgerCall.has_ipfs
    /\ JsonLen(ledgerCall.metadata) = Threshold

OffChainMetadataKeys ==
    {"id", "from", "to", "ipfs_hash", "message_hash", "timestamp", "neural_signature"}

\* C6 as stated (bounded on-chain footprint): for an off-chain envelope the
\* ledger receives only sender, recipient, off-chain reference, digest and
\* timestamp.
OnChainFootprintFiveFields ==
    (SendReachedLedger /\ ledgerCall.has_ipfs)
    => ledgerCall.metadata.keys \subseteq {"from", "to", "ipfs_hash", "message_hash", "timestamp"}

\* C6 amended: for an off-chain envelope the ledger receives the message
\* id, sender, recipient, off-chain reference, digest, timestamp and the
\* sender's neural-signature tag, and nothing else: never the payload, the
\* EncryptedBlock or the signature.
OnChainFootprint ==
    (SendReachedLedger /\ ledgerCall.has_ipfs)
    => /\ ledgerCall.metadata.keys = OffChainMetadataKeys
       /\ ledgerCall.metadata.payload = NoPayload
       /\ ledgerCall.metadata.encrypted_payload = NoBlock
       /\ ledgerCall.metadata.signature = NoSig

\* C6 witness: an encrypted envelope went off-chain and the ledger took the
\* metadata.
OnChainFootprint_Witness ==
    /\ SendReachedLedger
    /\ last.ok
    /\ last.args.encrypt
    /\ ledgerCall.has_ipfs
    /\ Has(offchainPut.data, "encrypted_payload")

\* C7 (off-chain round trip): the reference send_message submits for an
\* off-chain envelope is the digest under which the store returns exactly
\* the bytes of that envelope.
OffChainRoundTrip ==
    (SendReachedLedger /\ ledgerCall.has_ipfs)
    => \E e \in store : e.key = ledgerCall.ipfs_hash /\ e.val = Canon(offchainPut.data)

\* C8 (duplicate registration): register on an agent that is already
\* registered fails, does not invoke the ledger, and leaves identity and
\* address unchanged.
DuplicateRegistrationRejected ==
    (last.op = "register" /\ last.preIdentity.set)
    => /\ ~last.ok
       /\ ~Called(last, "register_agent")
       /\ identity[last.agent] = last.preIdentity
       /\ address[last.agent] = last.preAddress

\* C9 (failed registration): when the ledger's register call fails,
\* register raises and identity and address are what they were before.
FailedRegistrationFrame ==
    (last.op = "register" /\ Called(last, "register_agent") /\ ~last.args.accept)
    => /\ ~last.ok
       /\ identity[last.agent] = last.preIdentity
       /\ address[last.agent] = last.preAddress

\* C10 (successful registration): when the ledger accepts, register on an
\* unregistered agent invokes the ledger's register call exactly once,
\* returns the transaction reference the ledger gave, and leaves the agent
\* registered with identity.address equal to its address.
SuccessfulRegistration ==
    (last.op = "register" /\ last.args.accept /\ ~last.preIdentity.set)
    => /\ last.ok
       /\ last.calls = <<"register_agent">>
       /\ last.ret = TxRef(ledgerCall)
       /\ identity[last.agent].set
       /\ identity[last.agent].address = address[last.agent]

\* C12 (registration precondition): send_message and receive_messages on
\* an agent whose identity is unset fail with an error, call no
\* collaborator, return nothing, and leave identity and address as they
\* were.
RegistrationPrecondition ==
    (last.op \in {"send_message", "receive_messages"} /\ ~last.preIdentity.set)
    => /\ ~last.ok
       /\ last.err = "ValueError"
       /\ last.calls = <<>>
       /\ last.ret = NoRet
       /\ last.postIdentity = last.preIdentity
       /\ last.postAddress = last.preAddress

\* C12 witness: an unregistered agent was asked to send to an identity the
\* ledger holds and was refused.
RegistrationPrecondition_Witness ==
    /\ last.op = "send_message"
    /\ ~last.preIdentity.set
    /\ get_agent_info(registry, last.args.recipient).present
    /\ ~last.ok

\* C13 (unknown recipient): send_message by a registered agent to a
\* recipient the ledger reports absent or inactive fails with an error;
\* nothing is sealed, stored off-chain or submitted for it, and no message
\* identifier is returned.
UnknownRecipient ==
    ( /\ last.op = "send_message"
      /\ last.preIdentity.set
      /\ ~last.args.resolved.present \/ ~last.args.resolved.is_active )
    => /\ ~last.ok
       /\ last.err = "ValueError"
       /\ last.calls = <<"get_agent_info">>
       /\ last.ret = NoRet

\* C13 witness: an encrypted send to an identity the ledger holds but
\* reports inactive was refused.
UnknownRecipient_Witness ==
    /\ last.op = "send_message"
    /\ last.preIdentity.set
    /\ last.args.encrypt
    /\ last.args.resolved.present
    /\ ~last.args.resolved.is_active
    /\ ~last.ok

Submissions(c) == Cardinality({i \in 1..Len(c.calls) : c.calls[i] = "send_message"})

\* C14 (at-most-once submission): a send_message call invokes the ledger's
\* submit operation at most once, exactly once when it returns a message
\* identifier; when the ledger call fails the error reaches the caller and
\* no identifier is returned.
AtMostOnceSubmission ==
    last.op = "send_message"
    => /\ Submissions(last) <= 1
       /\ last.ok => (Submissions(last) = 1 /\ last.ret.kind = "msg" /\ last.args.accept)
       /\ ~last.ok => last.ret = NoRet
       /\ (Submissions(last) = 1 /\ ~last.args.accept)
          => (~last.ok /\ last.err = "RuntimeError")

\* C14 witness: the ledger was called once, failed, and the call raised.
AtMostOnceSubmission_Witness ==
    /\ last.op = "send_message"
    /\ Submissions(last) = 1
    /\ ~last.args.accept
    /\ ~last.ok
    /\ ledgerCall.op = "send_message"

\* C15 (unknown sender): an incoming envelope whose sender the ledger
\* cannot resolve is skipped without raising: no Message is yielded for it
\* and the loop stays in place for the next envelope.
UnknownSenderSkipped ==
    lastRx.outcome = "unknown_sender"
    => /\ ~lastRx.fatal
       /\ lastRx.yielded_after = lastRx.yielded_before
       /\ lastRx.sender_key = NoPub

\* C15 witness: after skipping an envelope of an unknown sender the same
\* loop took the next envelope of the stream.
UnknownSenderSkipped_Witness ==
    /\ lastRx.agent # "none"
    /\ lastRx.prev.outcome = "unknown_sender"
    /\ ~lastRx.fatal

\* C16 (per-message failure): when opening the EncryptedBlock of an
\* incoming envelope fails, or any other step of processing it does, that
\* envelope is dropped, receive_messages does not raise, and the loop stays
\* in place for the envelopes that follow.
PerMessageFailureRecovered ==
    lastRx.outcome = "error"
    => /\ ~lastRx.fatal
       /\ lastRx.yielded_after = lastRx.yielded_before
       /\ lastRx.err # "none"

\* C16 witness: a verified envelope whose block could not be opened was
\* dropped, and the same loop took the envelope after it.
PerMessageFailureRecovered_Witness ==
    /\ lastRx.agent # "none"
    /\ lastRx.prev.outcome = "error"
    /\ lastRx.prev.err \in {"ValueError", "InvalidTag"}
    /\ ~lastRx.fatal

\* C17 (foreign envelopes): an envelope from a known sender with a valid
\* signature that does not carry the AICUBE_AGENT_ tag is still delivered:
\* a Message is yielded for it.
ForeignEnvelopeDelivered ==
    ( /\ lastRx.agent # "none"
      /\ lastRx.verified
      /\ Has(lastRx.raw, "payload")
      /\ ~Has(lastRx.raw, "encrypted_payload")
      /\ ~(Has(lastRx.raw, "neural_signature")
           /\ StartsWithAgentTag(lastRx.raw.neural_signature)) )
    => /\ lastRx.outcome = "yield"
       /\ lastRx.yielded_after = lastRx.yielded_before + 1

AddressStability ==
    /\ (last.op = "register" /\ last.ok)
       => address[last.agent] = get_address(last.agent, handler[last.agent]).val
    /\ (last.op \in {"register", "rotate_keys"} /\ last.preIdentity.set)
       => last.postAddress = last.preAddress

\* C19 (listening only from Registered): no agent has _running set while
\* its identity is unset, and start_listening on an unregistered agent
\* leaves it not listening.
ListeningOnlyRegistered ==
    /\ \A a \in Agents : _running[a] => identity[a].set
    /\ (last.op = "start_listening" /\ ~last.preIdentity.set)
       => (~_running[last.agent] /\ last.calls = <<>>)

\* C19 witness: start_listening was called on an unregistered agent, the
\* refusal of receive_messages was logged, and the agent is not listening.
ListeningOnlyRegistered_Witness ==
    /\ last.op = "start_listening"
    /\ ~last.preIdentity.set
    /\ last.err = "ValueError"
    /\ ~_running[last.agent]

\* C20 (Stopped is terminal): an agent that has been listening and ceased,
\* by stop_listening or by the end of its loop, is never listening again.
StoppedIsTerminal ==
    \A a \in Agents : ~(left_listening[a] /\ _running[a])

\* C21 (envelope mutual exclusion): what send_message submits carries
\* either an inline payload or an off-chain reference, never both and never
\* neither, and the bytes it signed are those of an envelope without a
\* reference.
EnvelopeMutualExclusion ==
    SendReachedLedger
    => LET m == ledgerCall.metadata
           inline == Has(m, "payload") \/ Has(m, "encrypted_payload")
           reference == Has(m, "ipfs_hash")
           signed == IF ledgerCall.has_ipfs THEN offchainPut.data ELSE m
       IN  /\ inline # reference
           /\ reference = ledgerCall.has_ipfs
           /\ reference = (ledgerCall.ipfs_hash # NoHash)
           /\ Has(signed, "signature")
           /\ ~Has(signed.signature.bytes.body, "ipfs_hash")

\* C21 witness: a cleartext envelope over the threshold was submitted and
\* relayed as a reference with no payload beside it.
EnvelopeMutualExclusion_Witness ==
    /\ SendReachedLedger
    /\ last.ok
    /\ ~last.args.encrypt
    /\ ledgerCall.has_ipfs
    /\ Has(ledgerCall.metadata, "ipfs_hash")
    /\ ~Has(ledgerCall.metadata, "payload")
    /\ \E x \in Addrs : \E i \in 1..Len(stream[x]) : stream[x][i] = ledgerCall.metadata

\* C22 (seal/open round trip): a block sealed to a recipient's public key
\* and opened, unaltered, with that recipient's private key gives back the
\* plaintext that was sealed, whether or not the private key's bytes carry
\* the quantum-shield header.
SealOpenRoundTrip ==
    ( /\ crypto.step = "opened"
      /\ crypto.tamper = "none"
      /\ crypto.opener.form = "pem"
      /\ crypto.opener.key = crypto.pair )
    => /\ crypto.opened.ok
       /\ crypto.opened.val = crypto.plaintext

\* C22 witness: a payload was sealed and opened with the private key as
\* generate_rsa_keypair hands it out, header in front.
SealOpenRoundTrip_Witness ==
    /\ crypto.step = "opened"
    /\ crypto.tamper = "none"
    /\ crypto.opener = generate_rsa_keypair(crypto.pair).private
    /\ crypto.opener.shield
    /\ crypto.plaintext # JsonDumps(NoPayload)
    /\ crypto.opened = Ok(crypto.plaintext)

SignatureSoundness ==
    crypto.step = "verified"
    => crypto.verdict = (crypto.pub = Pem(crypto.signer) /\ crypto.presented = crypto.message)

\* C24 witness: a signature was checked under the signer's own public key
\* against a message other than the one signed, and verify_signature
\* returned false.
SignatureSoundness_Witness ==
    /\ crypto.step = "verified"
    /\ crypto.pub = Pem(crypto.signer)
    /\ crypto.presented # crypto.message
    /\ ~crypto.verdict

StoreReadable == \A f, g \in FileSet : ks.files[f] # 0 /\ ks.files[f] = ks.files[g]
StoreEmpty == ks.files = NoFiles

\* C25 (atomic persist): at every point of _save_keys, and after the
\* process stopped at any such point, the key store holds a complete key
\* set of one generation (or, before anything was ever persisted, nothing):
\* never a mixture of generations and never an incomplete set.
AtomicPersist ==
    ks.pc \in {"save", "metadata", "down"} => (StoreReadable \/ StoreEmpty)

\* C26 (rotation archives before replacing): every key set a rotation
\* replaced is held, whole, by an entry of the archive.
RotationArchives ==
    \A m \in ks.replaced :
        \E t \in 0..MaxTime : _load_existing_keys(ks.backup[t]) = m

\* C27 (exclusive rotation): whenever send_message or receive_messages
\* reads the key material, no rotate_keys or generate_keys call is under
\* way on it.
ExclusiveRotation ==
    ks.read.by # "none" => ks.read.during = "idle"

\* C27 witness: a send_message awaiting the ledger was overtaken by a whole
\* rotation and signed, once resumed, with the keys the rotation left.
ExclusiveRotation_Witness ==
    /\ ks.read.by = "send_message"
    /\ HasKeys(ks.read.since)
    /\ HasKeys(ks.read.keys)
    /\ ks.read.keys # ks.read.since
    /\ ks.read.during = "idle"
    /\ ks.crashes = 0

\* C28 (verify_agent_identity): the call never raises; it returns true when
\* the ledger gives an identity it reports active and the identity document
\* can be read, with or without the AICUBE neural signature in it, and false
\* when the identity is absent or inactive or the lookup or the reading of
\* the document fails.
AgentIdentityVerified ==
    verification.called
    => LET l == verification.on
           readable == \/ ~l.has_did
                       \/ (l.did.form = "object" /\ l.did.neural # "null")
       IN  /\ verification.ret.ok
           /\ verification.ret.val =
                  (~l.raises /\ l.present /\ l.has_active /\ l.is_active /\ readable)

\* C28 witness: an active identity whose document has no neural signature
\* was verified.
AgentIdentityVerified_Witness ==
    /\ verification.called
    /\ verification.on.present
    /\ verification.on.is_active
    /\ verification.on.has_did
    /\ verification.on.did = Doc("object", "absent")
    /\ verification.ret = Ok(TRUE)

StepsOf(trail) == [i \in 1..Len(trail) |-> trail[i].step]

\* C29 (loan workflow): process_loan_application does not raise; the steps
\* it runs are an initial part of underwriting, fraud screening,
\* compliance, final decision, blockchain recording, in that order; when it
\* succeeds the audit trail it returns is underwriting_assessment,
\* fraud_screening, compliance_verification; when its k-th step fails it
\* returns PROCESSING_FAILED with a failure record whose audit trail is the
\* entries of the audit steps completed before, and runs no step after the
\* k-th.
LoanWorkflowOrdering ==
    /\ ~loan.response.raised
    /\ loan.ran = SubSeq(WorkflowSteps, 1, Len(loan.ran))
    /\ (loan.response.returned /\ ~loan.response.has_failure_record)
       => /\ loan.ran = WorkflowSteps
          /\ StepsOf(loan.response.audit_trail) = AuditSteps
          /\ loan.response.decision.status \in {"APPROVED", "REJECTED"}
    /\ (loan.fails_at > 0 /\ Len(loan.ran) >= loan.fails_at)
       => /\ loan.response.returned
          /\ loan.response.has_failure_record
          /\ loan.response.decision.status = "PROCESSING_FAILED"
          /\ Len(loan.ran) = loan.fails_at
          /\ StepsOf(loan.response.audit_trail) =
                 SubSeq(AuditSteps, 1, IF loan.fails_at > 3 THEN 3 ELSE loan.fails_at - 1)

\* C29 witness: fraud screening failed after underwriting had completed.
LoanWorkflowOrdering_Witness ==
    /\ loan.fails_at = 2
    /\ loan.response.returned
    /\ loan.response.decision.status = "PROCESSING_FAILED"
    /\ StepsOf(loan.response.audit_trail) = <<"underwriting_assessment">>
    /\ loan.ran = <<"_underwriting_assessment", "_fraud_detection_screening">>

\* C30 (loan decision): the decision is APPROVED exactly when the risk
\* score is at least 700, the fraud risk below 0.3 and the compliance status
\* COMPLIANT, REJECTED otherwise; when APPROVED, loan_amount is the amount
\* requested under application["loan"]["amount"].
LoanDecision ==
    loan.decision.status # "none"
    => /\ loan.decision.status =
              (IF loan.risk_score >= RiskScoreFloor /\ loan.fraud_risk < FraudRiskLimit
                  /\ loan.compliance_status = "COMPLIANT"
               THEN "APPROVED" ELSE "REJECTED")
       /\ (loan.decision.status = "APPROVED" /\ loan.application.has_loan)
          => loan.decision.loan_amount = loan.application.loan.amount

\* C31 (identical canonicalization): for every envelope send_message
\* submits with its signature, the bytes the receiver's
\* _verify_message_signature hands to the signature check (the sorted
\* serialization of the envelope without its signature) are the bytes the
\* sender signed.
IdenticalCanonicalization ==
    (ledgerCall.op = "send_message" /\ Has(ledgerCall.metadata, "signature"))
    => ledgerCall.metadata.signature.bytes = Canon(PopSignature(ledgerCall.metadata))

\* C32 (no mutation after signing): verifying an incoming envelope leaves
\* it unchanged: once _verify_message_signature has returned, the envelope
\* is the dict that was taken off the stream, its signature field included,
\* and a Message yielded for it carries that signature.
EnvelopeNotMutated ==
    SenderResolved
    => /\ lastRx.after = lastRx.raw
       /\ Has(lastRx.raw, "signature") => Has(lastRx.after, "signature")
       /\ lastRx.outcome = "yield"
          => yielded[lastRx.agent][Len(yielded[lastRx.agent])].signature
                 = lastRx.raw.signature

\* The key the block was sealed to was presented, so both wrapped keys can
\* be unwrapped unless one of them was altered.
OpenedByRecipient ==
    /\ crypto.step \in {"opened", "signed", "verified"}
    /\ load_pem_private_key(strip_quantum_shield(crypto.opener)) = Ok(crypto.block.val.to)

\* C33 (fail-closed ordering in open): decrypt_message unwraps the two
\* keys, then checks the HMAC over the ciphertext, and only when that check
\* has passed attempts AES-GCM decryption; when the HMAC does not match
\* (the ciphertext or the HMAC altered, or the wrapped keys exchanged) it
\* raises the integrity error with no AES-GCM decryption attempted.
FailClosedOrdering ==
    LET s == crypto.steps
        at(op) == CHOOSE i \in 1..Len(s) : s[i] = op
        did(op) == \E i \in 1..Len(s) : s[i] = op
    IN  /\ did("verify_hmac")
           => did("unwrap_aes_key") /\ did("unwrap_hmac_key")
              /\ at("unwrap_aes_key") < at("verify_hmac")
              /\ at("unwrap_hmac_key") < at("verify_hmac")
        /\ did("aes_gcm_decrypt")
           => did("verify_hmac") /\ at("verify_hmac") < at("aes_gcm_decrypt")
              /\ crypto.tamper \notin {"ciphertext", "hmac", "swapped_keys"}
        /\ (OpenedByRecipient /\ crypto.tamper \in {"ciphertext", "hmac", "swapped_keys"})
           => /\ crypto.opened = Raise("ValueError", JsonDumps(NoPayload))
              /\ s[Len(s)] = "verify_hmac"
              /\ ~did("aes_gcm_decrypt")
        /\ (crypto.step \in {"opened", "signed", "verified"} /\ crypto.opened.ok)
           => s = DecryptOrder

\* C33 witness: a block whose ciphertext was altered was opened with the
\* recipient's key and refused at the HMAC check.
FailClosedOrdering_Witness ==
    /\ OpenedByRecipient
    /\ crypto.tamper = "ciphertext"
    /\ crypto.steps = <<"unwrap_aes_key", "unwrap_hmac_key", "verify_hmac">>
    /\ ~crypto.opened.ok

\* The last envelope taken got through every test receive_messages makes
\* of an envelope (sender known, signature verified, payload obtained,
\* agent tag present): the loop went on to build the Message it yields.
PassedEveryCheck ==
    /\ lastRx.verified
    /\ \/ lastRx.outcome = "yield"
       \/ /\ lastRx.outcome = "error"
          /\ lastRx.err = "KeyError"
          /\ Has(lastRx.after, "encrypted_payload") \/ Has(lastRx.after, "payload")
          /\ Has(lastRx.after, "neural_signature")
          /\ StartsWithAgentTag(lastRx.after.neural_signature)

StopTakesEffect ==
    /\ \A a \in Agents, l \in 1..MaxLoops :
           (listen.lp[a][l].pc = "waiting" /\ listen.lp[a][l].stopped)
               ~> (listen.lp[a][l].pc = "exited")
    /\ []((listen.dispatch.path \in {"handler", "default"} /\ listen.dispatch.stopped)
              => Started > 1)

\* C38 (handler failure isolation): an exception raised by a custom
\* handler, by process_with_llm or by the reply's send_message leaves the
\* loop in place asking for its next Message, with _running and the
\* agent's identity as they were.
HandlerFailureIsolation ==
    listen.dispatch.failed # "none"
    => /\ listen.dispatch.pc_after = "waiting"
       /\ listen.dispatch.running_after
       /\ is_registered(listen.dispatch.agent)

\* C38 witness: a loop whose handler raised on one Message has dispatched
\* the next one.
HandlerFailureIsolation_Witness ==
    /\ listen.dispatch.prev_failed = "handler"
    /\ listen.dispatch.path \in {"handler", "default"}
    /\ listen.lp[listen.dispatch.agent][listen.dispatch.loop].pc = "waiting"

\* C39 (single listening loop): at any time at most one start_listening
\* loop of an agent is in place taking Messages.
SingleListeningLoop ==
    \A a \in Agents :
        Cardinality({l \in 1..MaxLoops : listen.lp[a][l].pc = "waiting"}) <= 1

\* C40 (unique message identifiers): two send_message calls of the same
\* agent that returned did so with different identifiers.
UniqueMessageIds ==
    \A i, j \in 1..Len(listen.sent) :
        (i # j /\ listen.sent[i].by = listen.sent[j].by
         /\ listen.sent[i].returned /\ listen.sent[j].returned)
        => listen.sent[i].id # listen.sent[j].id

====
